---- MODULE Spec2Model ----
(***************************************************************************)
(* A model of grinstead/atomize: the atomizer (value graph -> atom         *)
(* stream), the rebuilder (atom stream -> value graph), the binary         *)
(* serializer (atom stream -> bytes) and the deserializer (bytes -> value  *)
(* graph), as written in the latest revision held in src/src/atomize.mjs   *)
(* (lines 560-1285).                                                       *)
(*                                                                         *)
(* A JavaScript value is a pair <<tag, n>>:                                *)
(*   <<"undef",0>> <<"null",0>> <<"bool",0|1>> <<"nan",0>>                 *)
(*   <<"int",n>>   a number with n === (n | 0)                             *)
(*   <<"flt",id>>  any other number, named by its row in FltBytes          *)
(*   <<"str",id>>  a string, named by its row in StrBytes                  *)
(*   <<"ref",i>>   the object at heap[i] (identity = i)                    *)
(* An atom stream is a sequence of such values (headers, as-is markers and *)
(* back-references are "int" cells); a byte stream is a sequence of        *)
(* 0..255.                                                                 *)
(***************************************************************************)
EXTENDS Integers, Sequences, FiniteSets, TLC

VARIABLES
    heap,         \* the input graph: heap[i] = [kind, keys, items]
    root,         \* the value handed to atomize
    cfg,          \* the builders / custom decoder the caller configured
    phase,        \* where the pipeline is
    output,       \* atomize: const output = []
    refs,         \* atomize: const refs = new Map()
    jumps,        \* atomize: const jumps = []
    atomIndex,    \* atomize: let atomIndex
    activeIndex,  \* atomize: let activeIndex
    activeVal,    \* atomize: let activeVal
    stack,        \* the open atomizeValue frames (the JS call stack)
    err,          \* the message of the Error that aborted the call, or ""
    trace,        \* history: the values written, each with its atom-index or
                  \* back-reference, the output length and the depth then
    rebuilt,      \* what rebuilder(custom)(...) returned or threw
    bytes,        \* what serialize(output) returned
    decoded,      \* what deserializer(custom)(...) returned or threw
    calls,        \* number of atomize calls made on this atomizer
    first,        \* history: input and outcome of the first call
    packed        \* POP_JUMP on an output of a given length: the header stored

vars == <<heap, root, cfg, phase, output, refs, jumps, atomIndex, activeIndex,
          activeVal, stack, err, trace, rebuilt, bytes, decoded, calls, first,
          packed>>

-----------------------------------------------------------------------------
(* Bounds of the model *)

\* total number of child slots (elements, keys and values) of a generated graph
MaxSize == 3
\* number of consecutive atomize calls made on one atomizer
MaxCalls == 3
\* number of bytes / cells appended to a stream handed to a decoder
MaxExcess == 1

-----------------------------------------------------------------------------
(* Program constants *)

ATOM_BITS == 3
ATOM_BITS_MASK == 7
INT_BITS == 3
SERIAL_BITS == 4

AtomAsIs == 0
AtomArray == 1
AtomObject == 2
AtomMap == 3
AtomSet == 4
AtomCustom == 5

SerialComplexAtom == 1
SerialBackReference == 2
SerialInt == 4
SerialString == 13
SerialVoid == 16
SerialNull == 32
SerialTrue == 48
SerialFalse == 64
SerialNaN == 80
SerialFloat64 == 96

-----------------------------------------------------------------------------
(* JavaScript values *)

Undef == <<"undef", 0>>
Null == <<"null", 0>>
True == <<"bool", 1>>
False == <<"bool", 0>>
NaN == <<"nan", 0>>
IntV(n) == <<"int", n>>
FltV(id) == <<"flt", id>>
StrV(id) == <<"str", id>>
Ref(i) == <<"ref", i>>

\* the private marker objects of the module
RAW == <<"RAW", 0>>
POP_JUMP == <<"POP_JUMP", 0>>

\* a function, a symbol and an object with a prototype of its own
Fn == <<"fn", 0>>
Sym == <<"sym", 0>>
Inst == <<"inst", 0>>
Unknowns == {Fn, Sym, Inst}

IsInt(v) == v[1] = "int"
IsRef(v) == v[1] = "ref"

MinInt32 == -2147483647 - 1
MaxInt32 == 2147483647

\* the strings of the tests, as the UTF-8 bytes TextEncoder gives them
StrIds == 0..9
StrBytes(id) ==
    CASE id = 0 -> <<>>                                   \* ""
      [] id = 1 -> <<97>>                                 \* "a"
      [] id = 2 -> <<98>>                                 \* "b"
      [] id = 3 -> <<99>>                                 \* "c"
      [] id = 4 -> <<104, 105>>                           \* "hi"
      [] id = 5 -> <<98, 111, 111, 109>>                  \* "boom"
      [] id = 6 -> <<116, 101, 115, 116>>                 \* "test"
      [] id = 7 -> <<98, 97, 108, 111, 110, 101, 121>>    \* "baloney"
      [] id = 8 -> <<97, 50>>                             \* "a2"
      [] id = 9 -> <<120>>                                \* "x"
      [] OTHER -> <<239, 191, 189>>                       \* not a known string

\* the non-int32 numbers of the model, as DataView.setFloat64 (big endian)
\* lays them out: 0.5, 2147483648, -1.5
FltIds == 1..3
FltBytes(id) ==
    CASE id = 1 -> <<63, 224, 0, 0, 0, 0, 0, 0>>
      [] id = 2 -> <<65, 224, 0, 0, 0, 0, 0, 0>>
      [] id = 3 -> <<191, 248, 0, 0, 0, 0, 0, 0>>
      [] OTHER -> <<0, 0, 0, 0, 0, 0, 0, 1>>              \* not a known number

-----------------------------------------------------------------------------
(* 32-bit integer operators of JavaScript, on int32 operands *)

RECURSIVE Pow2(_)
Pow2(k) == IF k = 0 THEN 1 ELSE 2 * Pow2(k - 1)

\* the low 31 bits of x, as a non-negative number
Low31(x) == IF x >= 0 THEN x ELSE (x + MaxInt32) + 1

\* the int32 with low 31 bits l and sign bit s
Signed(l, s) == IF s THEN (l - MaxInt32) - 1 ELSE l

RECURSIVE OrNN(_, _)
OrNN(x, y) ==
    IF x = 0 THEN y
    ELSE IF y = 0 THEN x
    ELSE 2 * OrNN(x \div 2, y \div 2) + (IF x % 2 = 1 \/ y % 2 = 1 THEN 1 ELSE 0)

RECURSIVE AndNN(_, _)
AndNN(x, y) ==
    IF x = 0 \/ y = 0 THEN 0
    ELSE 2 * AndNN(x \div 2, y \div 2) + (IF x % 2 = 1 /\ y % 2 = 1 THEN 1 ELSE 0)

\* x | y
Or32(x, y) == Signed(OrNN(Low31(x), Low31(y)), x < 0 \/ y < 0)

\* x & y
And32(x, y) == Signed(AndNN(Low31(x), Low31(y)), x < 0 /\ y < 0)

\* ~x
Not32(x) == (-1) - x

\* x << k : the bits above bit 31 are dropped, bit 31 is the sign
Shl32(x, k) ==
    LET n == k % 32
    IN  IF n = 0 THEN x
        ELSE LET low == x % Pow2(31 - n)
                 top == (x \div Pow2(31 - n)) % 2
             IN  Signed(low * Pow2(n), top = 1)

\* x >> k : arithmetic
Sar32(x, k) ==
    LET n == k % 32
    IN  IF n = 31 THEN (IF x < 0 THEN -1 ELSE 0) ELSE x \div Pow2(n)

\* x >>> k, for k % 32 # 0 (the result then fits 31 bits)
Ushr32(x, k) ==
    LET n == k % 32
    IN  IF x >= 0 THEN (IF n = 31 THEN 0 ELSE x \div Pow2(n))
        ELSE IF n = 31 THEN 1
        ELSE (Low31(x) \div Pow2(n)) + Pow2(31 - n)

\* ToInt32(-x) for an int32 x
Neg32(x) == IF x = MinInt32 THEN MinInt32 ELSE -x

-----------------------------------------------------------------------------
(* The value graph *)

Kinds == {"Array", "Object", "Map", "Set"}

Node(k, ks, is) == [kind |-> k, keys |-> ks, items |-> is]

KindCode(k) ==
    CASE k = "Array" -> AtomArray
      [] k = "Object" -> AtomObject
      [] k = "Map" -> AtomMap
      [] k = "Set" -> AtomSet

Range(s) == {s[i] : i \in DOMAIN s}

SeqsUpTo(S, n) == UNION {[1..k -> S] : k \in 0..n}

Injective(s) == \A i, j \in DOMAIN s : s[i] = s[j] => i = j

-----------------------------------------------------------------------------
(* Builders: what each builder asks of write, as a list of write calls,    *)
(* and what it returns                                                     *)

Op(name, arg) == <<name, arg>>

ChildOps(vals) == [i \in DOMAIN vals |-> Op("child", vals[i])]

\* atomizeValue's classification of val: the name of its builder
Classify(h, v) ==
    CASE v[1] = "undef" -> "void"
      [] v[1] = "null" -> "null"
      [] v[1] = "bool" -> "boolean"
      [] v[1] \in {"int", "flt", "nan"} -> "number"
      [] v[1] = "str" -> "string"
      [] v[1] = "ref" /\ h[v[2]].kind = "Map" -> "Map"
      [] v[1] = "ref" /\ h[v[2]].kind = "Set" -> "Set"
      [] v[1] = "ref" /\ h[v[2]].kind = "Array" -> "Array"
      [] v[1] = "fn" -> "function"
      [] v[1] = "sym" -> "symbol"
      [] v[1] = "inst" -> "instance"
      [] OTHER -> "object"

encodeVoid(v) == <<Op("raw", Undef)>>
encodeNull(v) == <<Op("raw", Null)>>
encodeBoolean(v) == <<Op("raw", v)>>
encodeNumber(v) == IF IsInt(v) THEN <<Op("asis", v)>> ELSE <<Op("raw", v)>>
encodeString(v) == <<Op("raw", v)>>

\* the array encoded without write(ALLOW_SELF_REFERENCE)
encodeArrayClosed(h, v) ==
    <<Op("push", IntV(AtomArray))>> \o ChildOps(h[v[2]].items) \o <<Op("pop", v)>>

encodeArray(h, v) ==
    <<Op("asr", RAW), Op("push", IntV(AtomArray))>>
        \o ChildOps(h[v[2]].items) \o <<Op("pop", v)>>

\* the set's header closed before its members are written
encodeSetOpen(h, v) ==
    <<Op("asr", RAW), Op("push", IntV(AtomSet)), Op("pop", v)>>
        \o ChildOps(h[v[2]].items)

encodeSet(h, v) ==
    <<Op("asr", RAW), Op("push", IntV(AtomSet))>>
        \o ChildOps(h[v[2]].items) \o <<Op("pop", v)>>

Reverse(q) == [i \in DOMAIN q |-> q[Len(q) + 1 - i]]

\* the values written last entry first
encodeMapReversed(h, v) ==
    <<Op("asr", RAW), Op("push", IntV(AtomMap))>>
        \o ChildOps(h[v[2]].keys) \o <<Op("pop", v)>>
        \o ChildOps(Reverse(h[v[2]].items))

encodeMap(h, v) ==
    <<Op("asr", RAW), Op("push", IntV(AtomMap))>>
        \o ChildOps(h[v[2]].keys) \o <<Op("pop", v)>> \o ChildOps(h[v[2]].items)

\* the object encoded without write(ALLOW_SELF_REFERENCE)
encodeObjectClosed(h, v) ==
    <<Op("push", IntV(AtomObject))>>
        \o ChildOps(h[v[2]].keys) \o <<Op("pop", v)>> \o ChildOps(h[v[2]].items)

\* the object's values written before its POP_JUMP
encodeObjectFlat(h, v) ==
    <<Op("asr", RAW), Op("push", IntV(AtomObject))>>
        \o ChildOps(h[v[2]].keys) \o ChildOps(h[v[2]].items) \o <<Op("pop", v)>>

encodeObject(h, v) ==
    <<Op("asr", RAW), Op("push", IntV(AtomObject))>>
        \o ChildOps(h[v[2]].keys) \o <<Op("pop", v)>> \o ChildOps(h[v[2]].items)

DefaultOps(h, v) ==
    LET k == Classify(h, v)
    IN  CASE k = "void" -> encodeVoid(v)
          [] k = "null" -> encodeNull(v)
          [] k = "boolean" -> encodeBoolean(v)
          [] k = "number" -> encodeNumber(v)
          [] k = "string" -> encodeString(v)
          [] k = "Array" -> encodeArray(h, v)
          [] k = "Set" -> encodeSet(h, v)
          [] k = "Map" -> encodeMap(h, v)
          [] OTHER -> encodeObject(h, v)

\* index.mjs: function unsupported(val, write) { throw ... }
unsupported(v) == <<Op("throw", v)>>

\* index.mjs: function encodeAsIs(val, write) { write(val, AS_IS); }
encodeAsIs(v) == <<Op("asis", v)>>

\* what the default builder returns (its truthiness)
DefaultResult(h, v) ==
    CASE Classify(h, v) \in {"void", "null", "boolean"} -> FALSE
      [] Classify(h, v) \in {"function", "symbol", "instance"} -> FALSE
      [] Classify(h, v) = "number" -> v[1] # "nan"
      [] OTHER -> TRUE

\* The user encoders of the model, by configuration:
\*   "nullABC" null: write("a"); write("b"); write("c"); return AS_IS
\*   "strBool" string: write(str === "hi" ? true : false)
\*   "arrKids" Array: write(arr.length); arr.forEach(write); return true
\*   "nullNone" null: return true, nothing written
\*   "arrSelf" Array: write(ALLOW_SELF_REFERENCE); write(ALLOW_SELF_REFERENCE);
\*                    arr.forEach((v) => { write(v); write(ALLOW_SELF_REFERENCE); });
\*                    return true
\* and the option of the builders
\*   "keepAsIs" keepUnknownsAsIs: true
\* "bare" is builders handed to atomize.mjs's atomizer as they are, without
\* customEncoder: void: () => {} and Array: arr.forEach(write)
\* "dict" is { dictionary: ["hi", "boom"] }
Cfgs == {"default", "nullABC", "strBool", "arrKids", "nullNone", "keepAsIs",
         "bare", "dict", "arrSelf"}

\* builders["dictionary"]: the values of the shared vocabulary, slot by slot
Dictionary(c) == IF c = "dict" THEN <<StrV(4), StrV(5)>> ELSE <<>>

\* dictionary.push([val, index])
DictionarySlot(c, val) ==
    (CHOOSE i \in DOMAIN Dictionary(c) : Dictionary(c)[i] = val) - 1

\* the refs an atomizer built over a dictionary starts every call with: the
\* value of slot `index` is known as the closed atom of that index
DictionaryRefs(c) ==
    [val \in {Dictionary(c)[i] : i \in DOMAIN Dictionary(c)} |->
        Not32(DictionarySlot(c, val))]

\* the atom index of the first value of a call: the size of the dictionary
DictionaryNext(c) == Len(Dictionary(c))

\* the cache a decoder built over the same dictionary starts with
DictionaryCache(c) == Dictionary(c)

HasCustom(c, k) ==
    \/ c = "nullABC" /\ k = "null"
    \/ c = "strBool" /\ k = "string"
    \/ c = "arrKids" /\ k = "Array"
    \/ c = "nullNone" /\ k = "null"
    \/ c = "arrSelf" /\ k = "Array"

\* write(ALLOW_SELF_REFERENCE) twice, then after every element once more
SelfOps(vals) ==
    <<Op("asr", RAW), Op("asr", RAW)>>
        \o [i \in 1..(2 * Len(vals)) |->
               IF i % 2 = 1 THEN Op("child", vals[(i + 1) \div 2]) ELSE Op("asr", RAW)]

UserOps(c, h, v) ==
    CASE c = "nullABC" -> ChildOps(<<StrV(1), StrV(2), StrV(3)>>)
      [] c = "strBool" -> ChildOps(<<IF v = StrV(4) THEN True ELSE False>>)
      [] c = "nullNone" -> <<>>
      [] c = "arrSelf" -> SelfOps(h[v[2]].items)
      [] OTHER -> ChildOps(<<IntV(Len(h[v[2]].items))>> \o h[v[2]].items)

UserResult(c, v) == c \in {"nullABC", "arrKids", "nullNone", "arrSelf"}

\* the builders of "bare", which atomizeValue calls directly
HasBare(c, k) == c = "bare" /\ k \in {"void", "Array"}

BareOps(h, v) == IF v = Undef THEN <<>> ELSE ChildOps(h[v[2]].items)

\* builders["keepUnknownsAsIs"] ? encodeAsIs : unsupported
unknown(c, v) == IF c = "keepAsIs" THEN encodeAsIs(v) ELSE unsupported(v)

\* the wrapper without its closing PopJump
customEncoderOpen(c, h, v) ==
    <<Op("push", IntV(AtomCustom))>> \o UserOps(c, h, v)

\* the wrapper without the header it pushes and pops
customEncoderBare(c, h, v) == UserOps(c, h, v)

customEncoder(c, h, v) ==
    <<Op("push", IntV(AtomCustom))>> \o UserOps(c, h, v) \o <<Op("pop", v)>>

BuilderOps(c, h, v) ==
    IF HasCustom(c, Classify(h, v)) THEN customEncoder(c, h, v)
    ELSE IF HasBare(c, Classify(h, v)) THEN BareOps(h, v)
    ELSE IF v \in Unknowns THEN unknown(c, v)
    ELSE DefaultOps(h, v)

BuilderResult(c, h, v) ==
    IF HasCustom(c, Classify(h, v)) THEN UserResult(c, v)
    ELSE IF HasBare(c, Classify(h, v)) THEN FALSE
    ELSE DefaultResult(h, v)

-----------------------------------------------------------------------------
(* The atomizer *)

EmptyRefs == [v \in {} |-> 0]

RefsSet(r, k, n) == [x \in (DOMAIN r) \cup {k} |-> IF x = k THEN n ELSE r[x]]

RefsDelete(r, k) == [x \in (DOMAIN r) \ {k} |-> r[x]]

NoResult == [done |-> FALSE, ok |-> FALSE, err |-> "", val |-> Undef,
             heap |-> <<>>, cache |-> <<>>, pos |-> 0, len |-> 0, full |-> <<>>]

NoFirst == [set |-> FALSE, heap |-> <<>>, root |-> Undef, cfg |-> "",
            phase |-> "", output |-> <<>>, err |-> "", between |-> <<>>]

Top == stack[Len(stack)]

TopOps == BuilderOps(cfg, heap, Top.val)

Running == phase = "atomizing" /\ stack # <<>>

AtOp(name) == Running /\ Top.pc <= Len(TopOps) /\ TopOps[Top.pc][1] = name

Arg == TopOps[Top.pc][2]

Advance == [stack EXCEPT ![Len(stack)].pc = @ + 1]

\* the frame atomizeValue(val) opens: its saved prevVal, prevIndex, prevLength
\* (allowed is history: whether the frame has called ALLOW_SELF_REFERENCE)
Frame(val, index) == [val |-> val, pc |-> 1, prevVal |-> activeVal,
                      prevIndex |-> index, prevLength |-> Len(output),
                      allowed |-> FALSE]

\* the index negated instead of complemented
FlipNegated(active) == IF active >= 0 THEN -active ELSE active

\* activeIndex = ~activeIndex, once per frame
Flip(active) == IF active >= 0 THEN Not32(active) ELSE active

\* the entry that forbids a back-reference to the active value
Sentinel == 0

\* the sentinel never recognised
IsSentinelNever(known) == FALSE

\* known === 0
IsSentinel(known) == known = Sentinel

Pipeline == <<rebuilt, bytes, decoded>>
Input == <<heap, root, cfg>>
Calls == <<calls, first, packed>>

Throw(msg) == phase' = "failed" /\ err' = msg

\* const output = []; const refs = new Map(); const jumps = [];
\* let atomIndex = 0; let activeIndex = 0; let activeVal = RAW;
FreshCall ==
    /\ output = <<>>
    /\ refs = DictionaryRefs(cfg)
    /\ jumps = <<>>
    /\ atomIndex = DictionaryNext(cfg)
    /\ activeIndex = 0
    /\ activeVal = RAW
    /\ stack = <<>>
    /\ err = ""
    /\ trace = <<>>
    /\ phase = "start"

\* atomizeValue(full): the frame of the root value is entered
AtomizeRoot ==
    /\ phase = "start"
    /\ phase' = "atomizing"
    /\ stack' = <<Frame(root, activeIndex)>>
    /\ activeVal' = root
    /\ activeIndex' = atomIndex
    /\ trace' = Append(trace, <<"open", root, atomIndex, Len(output), 1>>)
    /\ UNCHANGED <<output, refs, jumps, atomIndex, err, Input, Pipeline, Calls>>

\* write(val, RAW)
WriteRaw ==
    /\ AtOp("raw")
    /\ output' = Append(output, Arg)
    /\ stack' = Advance
    /\ UNCHANGED <<phase, refs, jumps, atomIndex, activeIndex, activeVal, err,
                   trace, Input, Pipeline, Calls>>

\* write(val, AS_IS); val | 0 of a symbol is a TypeError
WriteAsIs ==
    /\ AtOp("asis")
    /\ IF Arg = Sym
       THEN /\ Throw("Cannot convert a Symbol value to a number")
            /\ UNCHANGED <<output, stack>>
       ELSE /\ output' = IF IsInt(Arg) THEN output \o <<IntV(AtomAsIs), Arg>>
                         ELSE Append(output, Arg)
            /\ stack' = Advance
            /\ UNCHANGED <<phase, err>>
    /\ UNCHANGED <<refs, jumps, atomIndex, activeIndex, activeVal,
                   trace, Input, Pipeline, Calls>>

\* the builder throws: unsupported(val, write)
Unsupported ==
    /\ AtOp("throw")
    /\ Throw("No way to atomize")
    /\ UNCHANGED <<output, stack, refs, jumps, atomIndex, activeIndex, activeVal,
                   trace, Input, Pipeline, Calls>>

\* write(kind, PUSH_JUMP)
WritePushJump ==
    /\ AtOp("push")
    /\ output' = Append(output, Arg)
    /\ jumps' = Append(jumps, Len(output))
    /\ stack' = Advance
    /\ UNCHANGED <<phase, refs, atomIndex, activeIndex, activeVal, err,
                   trace, Input, Pipeline, Calls>>

\* the header PopJump stores at offset i when the output holds jump cells
Combined(jump, low) == Or32(Shl32(jump, ATOM_BITS), low)

\* the length read back with the zero-filling shift
UnpackedLogical(combined) == Ushr32(combined, ATOM_BITS)

\* combined >> ATOM_BITS
Unpacked(combined) == Sar32(combined, ATOM_BITS)

NoPacked == [set |-> FALSE, jump |-> 0, kind |-> 0, ok |-> FALSE, header |-> 0]

\* output lengths around 2^28, where (jump << ATOM_BITS) leaves the 31 bits
JumpLengths == {1, 2, 9, 268435454, 268435455, 268435456, 268435457,
                536870911, 536870912, 1073741824, 2147483646, MaxInt32}

\* write(val, POP_JUMP) at the end of an output of `jump` cells whose cell
\* at the popped offset holds `kind`
PopJumpAt ==
    /\ phase \in {"atomized", "failed"}
    /\ ~packed.set
    /\ \E jump \in JumpLengths, kind \in AtomAsIs..AtomCustom :
           LET combined == Combined(jump, kind)
           IN  packed' = [set |-> TRUE, jump |-> jump, kind |-> kind,
                          ok |-> Unpacked(combined) = jump, header |-> combined]
    /\ UNCHANGED <<Input, phase, output, refs, jumps, atomIndex, activeIndex,
                   activeVal, stack, err, trace, Pipeline, calls, first>>

\* the oldest offset of the jump stack
PoppedJumpFirst(js) == js[1]

\* const i = jumps.pop()
PoppedJump(js) == js[Len(js)]

\* write(val, POP_JUMP); offsets are 0-based as in the code
WritePopJump ==
    /\ AtOp("pop")
    /\ LET i == PoppedJump(jumps)
           jump == Len(output)
           combined == Combined(jump, output[i + 1][2])
       IN  /\ jumps' = SubSeq(jumps, 1, Len(jumps) - 1)
           /\ IF Unpacked(combined) # jump
              THEN /\ Throw("value too large to encode")
                   /\ UNCHANGED <<output, stack>>
              ELSE /\ output' = [output EXCEPT ![i + 1] = IntV(combined)]
                   /\ stack' = Advance
                   /\ UNCHANGED <<phase, err>>
    /\ UNCHANGED <<refs, atomIndex, activeIndex, activeVal, trace, Input,
                   Pipeline, Calls>>

\* the branch taken whatever the active value
AllowingAlways(active) == TRUE

\* if (activeVal !== RAW)
Allowing(active) == active # RAW

\* write(ALLOW_SELF_REFERENCE)
WriteAllowSelfReference ==
    /\ AtOp("asr")
    /\ IF Allowing(activeVal)
       THEN /\ activeIndex' = Flip(activeIndex)
            /\ refs' = RefsSet(refs, activeVal, Flip(activeIndex))
            /\ activeVal' = RAW
       ELSE UNCHANGED <<activeIndex, refs, activeVal>>
    /\ stack' = [Advance EXCEPT ![Len(stack)].allowed = TRUE]
    /\ UNCHANGED <<phase, output, jumps, atomIndex, err, trace, Input,
                   Pipeline, Calls>>

\* the counter left as it is
NextAtomIndexSame(index) == index

\* atomIndex++
NextAtomIndex(index) == index + 1

\* write(val): a child of the active value
WriteChild ==
    /\ AtOp("child")
    /\ LET val == Arg
           sentinel == activeIndex >= 0
           index1 == Flip(activeIndex)
           refs1 == IF sentinel THEN RefsSet(refs, activeVal, Sentinel) ELSE refs
           atom1 == NextAtomIndex(atomIndex)
       IN  /\ atomIndex' = atom1
           /\ refs' = refs1
           /\ jumps' = jumps
           /\ IF val \in DOMAIN refs1
              THEN IF IsSentinel(refs1[val])
                   THEN /\ Throw("infinite loop when encoding")
                        /\ activeIndex' = index1
                        /\ UNCHANGED <<output, stack, activeVal, trace>>
                   ELSE /\ output' = Append(output, IntV(refs1[val]))
                        /\ activeIndex' = index1
                        /\ stack' = Advance
                        /\ trace' = Append(trace,
                                       <<"ref", val, refs1[val], Len(output),
                                         Len(stack) + 1>>)
                        /\ UNCHANGED <<phase, err, activeVal>>
              ELSE \* atomizeValue(val)
                   /\ stack' = Append(Advance, Frame(val, index1))
                   /\ activeVal' = val
                   /\ activeIndex' = atom1
                   /\ trace' = Append(trace, <<"open", val, atom1, Len(output),
                                              Len(stack) + 1>>)
                   /\ UNCHANGED <<phase, err, output>>
    /\ UNCHANGED <<Input, Pipeline, Calls>>

\* the entry of a value that is not to be cached left in refs
RegisterKept(r, val, cached, active) ==
    IF cached
    THEN (IF active >= 0 THEN RefsSet(r, val, Not32(active)) ELSE r)
    ELSE r

\* the value registered under the atom-index after its own
RegisterAhead(r, val, cached, active) ==
    IF cached
    THEN (IF active >= 0 THEN RefsSet(r, val, Not32(active + 1)) ELSE r)
    ELSE (IF active < 0 THEN RefsDelete(r, val) ELSE r)

\* the registration atomizeValue makes when the builder has returned `cached`
Register(r, val, cached, active) ==
    IF cached
    THEN (IF active >= 0 THEN RefsSet(r, val, Not32(active)) ELSE r)
    ELSE (IF active < 0 THEN RefsDelete(r, val) ELSE r)

\* the check of the output length never made
EncodedNothingNever(prevLength, length) == FALSE

\* prevLength === output.length
EncodedNothing(prevLength, length) == prevLength = length

\* func(val, write) has returned: the rest of atomizeValue
BuilderReturn ==
    /\ Running
    /\ Top.pc > Len(TopOps)
    /\ refs' = Register(refs, Top.val, BuilderResult(cfg, heap, Top.val), activeIndex)
    /\ IF EncodedNothing(Top.prevLength, Len(output))
       THEN /\ Throw("Value encoded into nothing")
            /\ UNCHANGED <<stack, activeVal, activeIndex>>
       ELSE /\ activeVal' = Top.prevVal
            /\ activeIndex' = Top.prevIndex
            /\ stack' = SubSeq(stack, 1, Len(stack) - 1)
            /\ phase' = IF Len(stack) = 1 THEN "atomized" ELSE phase
            /\ err' = err
    /\ UNCHANGED <<output, jumps, atomIndex, trace, Input, Pipeline, Calls>>

AtomizerStep ==
    \/ AtomizeRoot
    \/ WriteRaw
    \/ WriteAsIs
    \/ WritePushJump
    \/ WritePopJump
    \/ WriteAllowSelfReference
    \/ WriteChild
    \/ Unsupported
    \/ BuilderReturn

-----------------------------------------------------------------------------
(* Binary serialization: serialize(atomized) *)

\* atomized[i] with a 0-based i; undefined beyond the end
CellAt(atoms, i) == IF i >= 0 /\ i < Len(atoms) THEN atoms[i + 1] ELSE Undef

\* the continuation bytes the while (remaining) loops push
RECURSIVE VarIntTail(_)
VarIntTail(remaining) ==
    IF remaining = 0 THEN <<>>
    ELSE LET bits == And32(remaining, 127)
             rest == Ushr32(remaining, 7)
         IN  <<IF rest # 0 THEN Or32(bits, 128) ELSE bits>> \o VarIntTail(rest)

\* the bytes popJump stores for a region of `remaining` bytes
JumpBytes(remaining, type) ==
    LET bits == Or32(And32(127, Shl32(remaining, SERIAL_BITS)), type)
        rest == Ushr32(remaining, 7 - SERIAL_BITS)
    IN  IF rest = 0 THEN <<bits>> ELSE <<Or32(bits, 128)>> \o VarIntTail(rest)

\* twiddle negatives
Twiddle(val) == IF val >= 0 THEN Shl32(val, 1) ELSE Or32(Shl32(Neg32(val), 1), 1)

\* the bytes of a number with val === (val | 0)
IntBytes(val) ==
    LET remaining == Twiddle(val)
        bits == Or32(And32(127, Shl32(remaining, INT_BITS)), SerialInt)
        rest == Ushr32(remaining, 7 - INT_BITS)
    IN  IF rest = 0 THEN <<bits>> ELSE <<Or32(bits, 128)>> \o VarIntTail(rest)

\* serializePosInt(int, pushByte)
serializePosInt(int) ==
    LET bits == And32(int, 127)
        rest == Ushr32(int, 7)
    IN  <<IF rest # 0 THEN Or32(bits, 128) ELSE bits>> \o VarIntTail(rest)

\* pushByte and the iolist.push of a byte array, with their byteLength update
PushChunk(s, chunk) ==
    [s EXCEPT !.iolist = Append(@, chunk), !.byteLength = @ + Len(chunk)]

\* popJump(): the placeholder at iolist[index] gets the length prefix
PopChunk(s, index, start, type) ==
    LET chunk == JumpBytes(s.byteLength - start, type)
    IN  [s EXCEPT !.iolist[index] = chunk, !.byteLength = @ + Len(chunk)]

\* the branch of serializeNext for a plain value
SerializeVal(s, val) ==
    CASE val[1] = "nan" -> PushChunk(s, <<SerialNaN>>)
      [] val[1] = "undef" -> PushChunk(s, <<SerialVoid>>)
      [] val[1] = "null" -> PushChunk(s, <<SerialNull>>)
      [] val[1] = "bool" ->
            PushChunk(s, <<IF val[2] = 1 THEN SerialTrue ELSE SerialFalse>>)
      [] val[1] = "int" -> PushChunk(s, IntBytes(val[2]))
      [] val[1] = "flt" ->
            PushChunk(PushChunk(s, <<SerialFloat64>>), FltBytes(val[2]))
      [] val[1] = "str" ->
            LET index == Len(s.iolist) + 1
                start == s.byteLength
                s1 == [s EXCEPT !.iolist = Append(@, <<0>>)]
            IN  PopChunk(PushChunk(s1, StrBytes(val[2])), index, start, SerialString)
      [] OTHER -> s   \* console.error(`TODO serialize ...`)

RECURSIVE SerializeNext(_)
RECURSIVE SerializeWhile(_, _)
RECURSIVE SerializeTimes(_, _)

\* while (nextIndex < until) { numKeys++; serializeNext(); }
SerializeWhile(s, until) ==
    IF s.err # "" \/ ~(s.pos < until) THEN s
    ELSE SerializeWhile([SerializeNext(s) EXCEPT !.count = s.count + 1], until)

\* for (let i = numKeys; i > 0; i--) serializeNext();
SerializeTimes(s, n) ==
    IF s.err # "" \/ n <= 0 THEN s ELSE SerializeTimes(SerializeNext(s), n - 1)

SerializeNext(s) ==
    LET type == CellAt(s.atoms, s.pos)
        s1 == [s EXCEPT !.pos = @ + 1]
    IN  IF s.err # "" THEN s
        ELSE IF type = IntV(AtomAsIs) \/ ~IsInt(type)
        THEN IF type = IntV(AtomAsIs)
             THEN SerializeVal([s1 EXCEPT !.pos = @ + 1], CellAt(s.atoms, s1.pos))
             ELSE SerializeVal(s1, type)
        ELSE IF type[2] < 0
        THEN PushChunk(s1, serializePosInt(
                 Or32(Shl32(Not32(type[2]), 2), SerialBackReference)))
        ELSE LET atomType == And32(type[2], ATOM_BITS_MASK)
                 until == Sar32(type[2], ATOM_BITS)
                 index == Len(s.iolist) + 1
                 start == s.byteLength
                 tag == Or32(Shl32(atomType, 1), SerialComplexAtom)
                 s2 == [s1 EXCEPT !.iolist = Append(@, <<0>>), !.count = 0]
             IN  IF atomType \in {AtomArray, AtomSet, AtomCustom}
                 THEN LET s3 == SerializeWhile(s2, until)
                      IN  IF s3.err # "" THEN s3
                          ELSE [PopChunk(s3, index, start, tag) EXCEPT !.count = s.count]
                 ELSE IF atomType \in {AtomObject, AtomMap}
                 THEN LET s3 == SerializeWhile(s2, until)
                      IN  IF s3.err # "" THEN s3
                          ELSE [SerializeTimes(PopChunk(s3, index, start, tag), s3.count)
                                    EXCEPT !.count = s.count]
                 ELSE [s2 EXCEPT !.err = "impossible"]

RECURSIVE Flatten(_)
Flatten(chunks) ==
    IF chunks = <<>> THEN <<>> ELSE Head(chunks) \o Flatten(Tail(chunks))

\* serialize(atomized): the iolist copied into new Uint8Array(byteLength)
serialize(atoms) ==
    LET s == SerializeNext([atoms |-> atoms, pos |-> 0, iolist |-> <<>>,
                            byteLength |-> 0, count |-> 0, err |-> ""])
        flat == Flatten(s.iolist)
    IN  IF s.err # "" THEN [done |-> TRUE, ok |-> FALSE, err |-> s.err, data |-> <<>>]
        ELSE IF Len(flat) > s.byteLength
        THEN [done |-> TRUE, ok |-> FALSE, err |-> "RangeError", data |-> <<>>]
        ELSE [done |-> TRUE, ok |-> TRUE, err |-> "",
              data |-> flat \o [i \in 1..(s.byteLength - Len(flat)) |-> 0]]

NoBytes == [done |-> FALSE, ok |-> FALSE, err |-> "", data |-> <<>>]

-----------------------------------------------------------------------------
(* Rebuilding and binary deserialization.  A reader is the state of one    *)
(* rebuild / deserialize call: the input, the cursor, the cache and the    *)
(* objects built so far; an exception is kept in err and ends the call.    *)

NoUntil == -1
NoTrick == <<"none", 0>>

Reader(mode, full, c) ==
    [mode |-> mode, full |-> full, pos |-> 0, len |-> Len(full),
     trick |-> NoTrick, cache |-> DictionaryCache(c), heap |-> <<>>, err |-> "",
     cfg |-> c]

Out(st, val) == [st |-> st, val |-> val]

Fail(st, msg) == Out([st EXCEPT !.err = msg], Undef)

\* full[i] of a Uint8Array with a 0-based i; -1 stands for undefined
ByteAt(full, i) == IF i >= 0 /\ i < Len(full) THEN full[i + 1] ELSE -1

\* ToInt32 of a byte or of undefined
ToInt(byte) == IF byte = -1 THEN 0 ELSE byte

\* readNext without its check of the end of the stream
ReadAtomUnchecked(st, until) ==
    IF st.pos = until THEN Out(st, POP_JUMP)
    ELSE Out([st EXCEPT !.pos = @ + 1],
             IF st.pos < st.len THEN st.full[st.pos + 1] ELSE Undef)

\* the rebuilder's readNext(until)
ReadAtom(st, until) ==
    IF st.pos = until THEN Out(st, POP_JUMP)
    ELSE IF st.pos = st.len THEN Fail(st, "Incomplete data")
    ELSE Out([st EXCEPT !.pos = @ + 1], st.full[st.pos + 1])

\* the while (byte & 0x80) loop of readVarInt
RECURSIVE VarIntLoop(_, _, _, _, _)
VarIntLoop(full, pos, byte, int, bitlength) ==
    IF And32(ToInt(byte), 128) = 0 THEN [pos |-> pos, int |-> int]
    ELSE LET next == ByteAt(full, pos)
         IN  VarIntLoop(full, pos + 1, next,
                        Or32(int, Shl32(And32(ToInt(next), 127), bitlength)),
                        bitlength + 7)

\* readVarInt(firstByte, trashBits), reading on from pos
readVarInt(full, pos, firstByte, trashBits) ==
    VarIntLoop(full, pos, firstByte, Sar32(And32(127, firstByte), trashBits),
               7 - trashBits)

\* full.subarray(from, to)
Subarray(full, from, to) ==
    LET a == IF from > Len(full) THEN Len(full) ELSE from
        b == IF to > Len(full) THEN Len(full) ELSE to
    IN  IF b <= a THEN <<>> ELSE SubSeq(full, a + 1, b)

\* TextDecoder.decode
DecodeStr(bs) ==
    IF \E id \in StrIds : StrBytes(id) = bs
    THEN StrV(CHOOSE id \in StrIds : StrBytes(id) = bs)
    ELSE StrV(-1)

\* DataView.getFloat64
DecodeFlt(bs) ==
    IF \E id \in FltIds : FltBytes(id) = bs
    THEN FltV(CHOOSE id \in FltIds : FltBytes(id) = bs)
    ELSE FltV(-1)

\* the value untwiddled with the sign-propagating shift
UntwiddleSigned(twiddled) ==
    IF And32(twiddled, 1) # 0 THEN -Sar32(twiddled, 1) ELSE Sar32(twiddled, 1)

\* the Int branch: the value kept in trickInt
Untwiddle(twiddled) ==
    IF And32(twiddled, 1) # 0 THEN -Ushr32(twiddled, 1) ELSE Ushr32(twiddled, 1)

\* the deserializer's readNext_(until)
ReadByte(st, until) ==
    IF st.trick # NoTrick THEN Out([st EXCEPT !.trick = NoTrick], st.trick)
    ELSE IF st.pos = until THEN Out(st, POP_JUMP)
    ELSE IF st.pos = st.len THEN Fail(st, "Incomplete data")
    ELSE LET byte == ByteAt(st.full, st.pos)
             b == ToInt(byte)
             p1 == st.pos + 1
         IN  IF And32(b, SerialComplexAtom) # 0
             THEN LET r == readVarInt(st.full, p1, b, SERIAL_BITS)
                  IN  IF And32(b, 15) = SerialString
                      THEN Out([st EXCEPT !.pos = r.pos + r.int],
                               DecodeStr(Subarray(st.full, r.pos, r.pos + r.int)))
                      ELSE Out([st EXCEPT !.pos = r.pos],
                               IntV(Or32(Shl32(r.pos + r.int, ATOM_BITS),
                                         And32(ATOM_BITS_MASK, Sar32(b, 1)))))
             ELSE IF And32(b, SerialBackReference) # 0
             THEN LET r == readVarInt(st.full, p1, b, 2)
                  IN  Out([st EXCEPT !.pos = r.pos], IntV(Not32(r.int)))
             ELSE IF And32(b, SerialInt) # 0
             THEN LET r == readVarInt(st.full, p1, b, INT_BITS)
                  IN  Out([st EXCEPT !.pos = r.pos, !.trick = IntV(Untwiddle(r.int))],
                          IntV(AtomAsIs))
             ELSE CASE byte = SerialVoid -> Out([st EXCEPT !.pos = p1], Undef)
                    [] byte = SerialNull -> Out([st EXCEPT !.pos = p1], Null)
                    [] byte = SerialTrue -> Out([st EXCEPT !.pos = p1], True)
                    [] byte = SerialFalse -> Out([st EXCEPT !.pos = p1], False)
                    [] byte = SerialNaN -> Out([st EXCEPT !.pos = p1], NaN)
                    [] byte = SerialFloat64 ->
                          IF p1 + 8 > st.len
                          THEN Fail([st EXCEPT !.pos = p1], "RangeError")
                          ELSE Out([st EXCEPT !.pos = p1 + 8],
                                   DecodeFlt(SubSeq(st.full, p1 + 1, p1 + 8)))
                    [] OTHER -> Fail([st EXCEPT !.pos = p1], "bad byte")

\* if (nextIndex < before) throw "fail";
CheckCursor(st, r) ==
    IF r.st.err = "" /\ r.st.pos < st.pos THEN Fail(r.st, "fail") ELSE r

\* the deserializer's readNext(until): readNext_ and the cursor check
ReadByteChecked(st, until) == CheckCursor(st, ReadByte(st, until))

\* readNext(until) of the call the reader belongs to
ReadNext(st, until) ==
    IF st.mode = "atoms" THEN ReadAtom(st, until) ELSE ReadByteChecked(st, until)

\* a back-reference resolved one slot too far
CacheAtNext(cache, i) == IF i + 1 >= 0 /\ i + 1 < Len(cache) THEN cache[i + 2] ELSE Undef

\* cache[i] with a 0-based i; undefined beyond the end
CacheAt(cache, i) == IF i >= 0 /\ i < Len(cache) THEN cache[i + 1] ELSE Undef

\* the shell allocated but not cached
AllocUncached(st, kind) == [st EXCEPT !.heap = Append(@, Node(kind, <<>>, <<>>))]

\* const x = new Kind(); cache.push(x);
Alloc(st, kind) ==
    [st EXCEPT !.heap = Append(@, Node(kind, <<>>, <<>>)),
               !.cache = Append(@, Ref(Len(st.heap) + 1))]

\* set.add(v) / the effect of map.set(k, v) and object[k] = v on the entries
RECURSIVE AddAll(_, _)
AddAll(items, vals) ==
    IF vals = <<>> THEN items
    ELSE AddAll(IF Head(vals) \in Range(items) THEN items
                ELSE Append(items, Head(vals)), Tail(vals))

RECURSIVE SetAll(_, _, _)
SetAll(node, ks, vs) ==
    IF ks = <<>> \/ vs = <<>> THEN node
    ELSE LET k == Head(ks)
             at == {i \in DOMAIN node.keys : node.keys[i] = k}
         IN  SetAll(IF at # {}
                    THEN [node EXCEPT !.items[CHOOSE i \in at : TRUE] = Head(vs)]
                    ELSE [node EXCEPT !.keys = Append(@, k),
                                      !.items = Append(@, Head(vs))],
                    Tail(ks), Tail(vs))

RECURSIVE rebuildValue(_, _)
RECURSIVE nextValue(_)
RECURSIVE rebuildUntil(_, _, _)
RECURSIVE ReadValues(_, _, _)

\* a composite pushed on the cache once more when its contents have been read
CachedAfter(index, r) ==
    IF r.st.err # "" THEN r
    ELSE IF r.val = RAW
    THEN Out([r.st EXCEPT !.cache = Append(@, CacheAt(r.st.cache, index))],
             CacheAt(r.st.cache, index))
    ELSE Out([r.st EXCEPT !.cache = Append(@, r.val)], r.val)

\* a value read by nextValue or rebuildUntil: a composite is taken from the
\* cache slot it reserved, any other value is pushed on the cache
Cached(index, r) ==
    IF r.st.err # "" THEN r
    ELSE IF r.val = RAW THEN Out(r.st, CacheAt(r.st.cache, index))
    ELSE Out([r.st EXCEPT !.cache = Append(@, r.val)], r.val)

\* rebuildValue(cache, custom, readNext, type) on the cell just read
RebuildRead(t) == rebuildValue(t.st, t.val)

\* The custom decoders of the model, by configuration:
\*   "nullABC" (next) => { next(); next(); next(); return null; }
\*   "strBool" (next) => next() === true ? "hi" : "baloney"
\*   "arrKids" (next) => { const n = next(), a = [];
\*                         for (let i = 0; i < n; i++) a.push(next()); return a; }
\*   "nullNone" (next) => null
\*   otherwise no decoder was given: custom is undefined
DecodeNull(r) ==
    IF r.st.err # "" THEN Fail(r.st, r.st.err) ELSE Out(r.st, Null)

DecodeString(r) ==
    IF r.st.err # "" THEN r
    ELSE Out(r.st, IF r.val = True THEN StrV(4) ELSE StrV(7))

DecodeArray(r) ==
    IF r.st.err # "" THEN Fail(r.st, r.st.err)
    ELSE Out([r.st EXCEPT !.heap = Append(@, Node("Array", <<>>, r.val))],
             Ref(Len(r.st.heap) + 1))

DecodeArrayItems(n) ==
    IF n.st.err # "" THEN n
    ELSE DecodeArray(ReadValues(n.st, IF IsInt(n.val) THEN n.val[2] ELSE 0, <<>>))

CustomDecode(st) ==
    CASE st.cfg = "nullABC" -> DecodeNull(ReadValues(st, 3, <<>>))
      [] st.cfg = "strBool" -> DecodeString(nextValue(st))
      [] st.cfg = "arrKids" -> DecodeArrayItems(nextValue(st))
      [] st.cfg = "nullNone" -> Out(st, Null)
      [] OTHER -> Fail(st, "custom is not a function")

\* n calls of nextValue, in order
ReadMore(r, n, acc) == ReadValues(r.st, n - 1, Append(acc, r.val))

ReadValues(st, n, acc) ==
    IF st.err # "" \/ n <= 0 THEN Out(st, acc) ELSE ReadMore(nextValue(st), n, acc)

\* the values of an Object or a Map: one nextValue per key read
ReadEntries(kind, ks) ==
    IF kind \in {AtomObject, AtomMap}
    THEN ReadValues(ks.st, Len(ks.val), <<>>)
    ELSE Out(ks.st, <<>>)

\* the shell at heap[me] filled with what was read
Populate(kind, me, ks, vs) ==
    CASE kind = AtomArray -> Out([ks.st EXCEPT !.heap[me].items = ks.val], RAW)
      [] kind = AtomSet ->
            Out([ks.st EXCEPT !.heap[me].items = AddAll(<<>>, ks.val)], RAW)
      [] OTHER -> Out([vs.st EXCEPT !.heap[me] = SetAll(@, ks.val, vs.val)], RAW)

\* the cases Array, Object, Map and Set, once the children (Array, Set) or
\* the keys (Object, Map) before the until-index have been read
RebuildComposite(kind, me, ks) == Populate(kind, me, ks, ReadEntries(kind, ks))

KindOf(code) == CHOOSE k \in Kinds : KindCode(k) = code

rebuildValue(st, type) ==
    IF st.err # "" THEN Out(st, Undef)
    ELSE IF ~IsInt(type) THEN Out(st, type)
    ELSE IF type[2] < 0 THEN Out(st, CacheAt(st.cache, Not32(type[2])))
    ELSE LET kind == And32(type[2], ATOM_BITS_MASK)
         IN  CASE kind = AtomAsIs -> ReadNext(st, NoUntil)
               [] kind \in {AtomArray, AtomObject, AtomMap, AtomSet} ->
                     RebuildComposite(kind, Len(st.heap) + 1,
                         rebuildUntil(Alloc(st, KindOf(kind)), <<>>,
                                      Sar32(type[2], ATOM_BITS)))
               [] kind = AtomCustom -> CustomDecode(st)
               [] OTHER -> Fail(st, "Rebuilder TODO")

nextValue(st) ==
    IF st.err # "" THEN Out(st, Undef)
    ELSE Cached(Len(st.cache), RebuildRead(ReadNext(st, NoUntil)))

\* the body of rebuildUntil's loop for the value r rebuilt from one cell
UntilNext(r, results, until) ==
    IF r.st.err # "" THEN Out(r.st, results)
    ELSE rebuildUntil(r.st, Append(results, r.val), until)

UntilStep(t, results, until) ==
    IF t.st.err # "" \/ t.val = POP_JUMP THEN Out(t.st, results)
    ELSE UntilNext(Cached(Len(t.st.cache), RebuildRead(t)), results, until)

rebuildUntil(st, results, until) ==
    IF st.err # "" THEN Out(st, results)
    ELSE UntilStep(ReadNext(st, until), results, until)

Result(st, val, msg) ==
    [done |-> TRUE, ok |-> msg = "", err |-> msg, val |-> val,
     heap |-> st.heap, cache |-> st.cache, pos |-> st.pos, len |-> st.len]

\* the rebuilder without its check of the cursor
rebuildUnchecked(full, c) ==
    LET r == nextValue(Reader("atoms", full, c))
    IN  IF r.st.err # "" THEN Result(r.st, Undef, r.st.err)
        ELSE Result(r.st, r.val, "")

\* rebuilder(custom)(full)
rebuild(full, c) ==
    LET r == nextValue(Reader("atoms", full, c))
    IN  IF r.st.err # "" THEN Result(r.st, Undef, r.st.err)
        ELSE IF r.st.pos # r.st.len
        THEN Result(r.st, Undef, "rebuilder given excess content")
        ELSE Result(r.st, r.val, "")

\* deserializer(custom)(full)
deserialize(full, c) ==
    LET r == nextValue(Reader("bytes", full, c))
    IN  IF r.st.err # "" THEN Result(r.st, Undef, r.st.err)
        ELSE Result(r.st, r.val, "")

-----------------------------------------------------------------------------
(* Structural equality of two rooted value graphs, identity included *)

Kids(h, v) == h[v[2]].keys \o h[v[2]].items

Shape(h, v) ==
    IF IsRef(v)
    THEN <<"ref", h[v[2]].kind, Len(h[v[2]].keys), Len(h[v[2]].items)>>
    ELSE v

\* the pairs of values found at the same place of the two graphs
RECURSIVE Paired(_, _, _)
Paired(h1, h2, R) ==
    LET more == UNION {{<<Kids(h1, p[1])[i], Kids(h2, p[2])[i]>> :
                            i \in 1..Len(Kids(h1, p[1]))} :
                       p \in {q \in R : IsRef(q[1]) /\ Shape(h1, q[1]) = Shape(h2, q[2])}}
    IN  IF more \subseteq R THEN R ELSE Paired(h1, h2, R \cup more)

Isomorphic(h1, v1, h2, v2) ==
    LET R == Paired(h1, h2, {<<v1, v2>>})
    IN  /\ \A p \in R : Shape(h1, p[1]) = Shape(h2, p[2])
        /\ \A p, q \in R : IsRef(p[1]) /\ IsRef(q[1]) =>
                               ((p[1] = q[1]) <=> (p[2] = q[2]))

-----------------------------------------------------------------------------
(* Inputs: the value graphs and configurations a caller may hand over *)

In(h, r, c) == [heap |-> h, root |-> r, cfg |-> c]

\* the numbers with n === (n | 0) the model encodes
IntLeaves == {0, 1, -1, 2, 4, 127, 128, -128, -129, 1073741823, -1073741823,
              1073741824, -1073741824, MaxInt32, -MaxInt32, MinInt32}

Leaves ==
    {Undef, Null, True, False, NaN}
        \cup {IntV(n) : n \in IntLeaves}
        \cup {FltV(id) : id \in FltIds}
        \cup {StrV(id) : id \in StrIds}

\* a value on its own
ScalarInputs == {In(<<>>, v, "default") : v \in Leaves}

\* tests.mjs: const x = [1]; x.push(x);
XArray == Node("Array", <<>>, <<IntV(1), Ref(1)>>)
\* tests.mjs: const a = []; a.push(a);
AArray == Node("Array", <<>>, <<Ref(1)>>)
\* tests.mjs: const oof = { test: 1 }; oof.test = oof;
Oof == Node("Object", <<StrV(6)>>, <<Ref(1)>>)
\* tests.mjs: y = Map{1: "hi", "hi": 4, x: Set{y, "boom"}}, x = [1, x]
YHeap == <<Node("Map", <<IntV(1), StrV(4), Ref(2)>>, <<StrV(4), IntV(4), Ref(3)>>),
           Node("Array", <<>>, <<IntV(1), Ref(2)>>),
           Node("Set", <<>>, <<Ref(1), StrV(5)>>)>>
\* tests.mjs: run({ a: y, b: 2, x: oof })
BigHeap == <<Node("Object", <<StrV(1), StrV(2), StrV(9)>>, <<Ref(2), IntV(2), Ref(5)>>),
             Node("Map", <<IntV(1), StrV(4), Ref(3)>>, <<StrV(4), IntV(4), Ref(4)>>),
             Node("Array", <<>>, <<IntV(1), Ref(3)>>),
             Node("Set", <<>>, <<Ref(2), StrV(5)>>),
             Node("Object", <<StrV(6)>>, <<Ref(5)>>)>>
\* tests.mjs: run([["a", "a2"], "b"])
NestedHeap == <<Node("Array", <<>>, <<Ref(2), StrV(2)>>),
                Node("Array", <<>>, <<StrV(1), StrV(8)>>)>>
\* tests.mjs: run(["hi", a], ...) with a = [a]
HiHeap == <<Node("Array", <<>>, <<StrV(4), Ref(2)>>),
            Node("Array", <<>>, <<Ref(2)>>)>>
\* index.mjs: run([null, null], ...)
NullsHeap == <<Node("Array", <<>>, <<Null, Null>>)>>
\* one object at two places, a map of three entries, a shared number
SharedHeap == <<Node("Array", <<>>, <<Ref(2), Ref(2), IntV(128), IntV(128)>>),
                Node("Object", <<StrV(1)>>, <<StrV(1)>>)>>
OrderHeap == <<Node("Map", <<StrV(3), StrV(1), StrV(2)>>, <<IntV(1), IntV(2), Ref(1)>>)>>
OrderedObj == <<Node("Object", <<StrV(2), StrV(1)>>, <<FltV(1), NaN>>)>>
\* [[a]] with a the outer array, and [b, b]
LoopHeap == <<Node("Array", <<>>, <<Ref(2)>>), Node("Array", <<>>, <<Ref(1)>>)>>
TwiceHeap == <<Node("Array", <<>>, <<Ref(2), Ref(2)>>), Node("Array", <<>>, <<IntV(4)>>)>>

\* [null, "a"], [fn, inst, fn], [1], [1, undefined] and []
NullAHeap == <<Node("Array", <<>>, <<Null, StrV(1)>>)>>
UnknownsHeap == <<Node("Array", <<>>, <<Fn, Inst, Fn>>)>>
OneHeap == <<Node("Array", <<>>, <<IntV(1)>>)>>
VoidHeap == <<Node("Array", <<>>, <<IntV(1), Undef>>)>>
EmptyHeap == <<Node("Array", <<>>, <<>>)>>

\* values the default builders have no encoder for, and the custom and bare
\* builders on the values they are about
OptionInputs ==
    {In(<<>>, u, c) : u \in Unknowns, c \in {"default", "keepAsIs"}}
        \cup {In(UnknownsHeap, Ref(1), c) : c \in {"default", "keepAsIs"}}
        \cup {In(YHeap, Ref(1), "keepAsIs"), In(YHeap, Ref(1), "strBool")}
        \cup {In(h, Ref(1), "nullNone") : h \in {NullsHeap, NullAHeap, YHeap}}
        \cup {In(<<>>, Null, "nullNone"), In(NullAHeap, Ref(1), "nullABC")}
        \cup {In(h, Ref(1), "bare") : h \in {OneHeap, VoidHeap, EmptyHeap, NestedHeap}}
        \cup {In(<<>>, v, "bare") : v \in {Undef, Null}}
        \cup {In(h, Ref(1), "arrSelf") :
                  h \in {<<XArray>>, <<AArray>>, NestedHeap, TwiceHeap, LoopHeap,
                         EmptyHeap}}

\* values that hold "hi" and "boom", are one of them, or hold neither,
\* handed to an atomizer built over the dictionary ["hi", "boom"]
DictionaryInputs ==
    {In(h, Ref(1), "dict") : h \in {YHeap, HiHeap, NestedHeap, SharedHeap}}
        \cup {In(<<>>, v, "dict") : v \in {StrV(4), StrV(5), StrV(1), IntV(128)}}

TestInputs ==
    { In(<<XArray>>, Ref(1), "default"),
      In(<<AArray>>, Ref(1), "default"),
      In(<<Oof>>, Ref(1), "default"),
      In(YHeap, Ref(1), "default"),
      In(BigHeap, Ref(1), "default"),
      In(NestedHeap, Ref(1), "default"),
      In(HiHeap, Ref(1), "default"),
      In(HiHeap, Ref(1), "strBool"),
      In(NestedHeap, Ref(1), "strBool"),
      In(NullsHeap, Ref(1), "default"),
      In(NullsHeap, Ref(1), "nullABC"),
      In(<<>>, Null, "nullABC"),
      In(SharedHeap, Ref(1), "default"),
      In(OrderHeap, Ref(1), "default"),
      In(OrderedObj, Ref(1), "default"),
      In(LoopHeap, Ref(1), "default"),
      In(LoopHeap, Ref(1), "arrKids"),
      In(TwiceHeap, Ref(1), "default"),
      In(TwiceHeap, Ref(1), "arrKids"),
      In(NestedHeap, Ref(1), "arrKids"),
      In(<<AArray>>, Ref(1), "arrKids") }

\* Generated graphs: one or two objects of any kind, whose elements, keys
\* and values are the number 1 or one of the objects, MaxSize slots in all
ObjKeys == <<StrV(1), StrV(2), StrV(3), StrV(9), StrV(4)>>

NodesOf(Vals, b) ==
    {Node("Array", <<>>, is) : is \in SeqsUpTo(Vals, b)}
        \cup {Node("Set", <<>>, is) : is \in {s \in SeqsUpTo(Vals, b) : Injective(s)}}
        \cup UNION {{Node("Object", SubSeq(ObjKeys, 1, n), is) : is \in [1..n -> Vals]}
                        : n \in 0..(b \div 2)}
        \cup UNION {{Node("Map", ks, is) :
                        ks \in {s \in [1..n -> Vals] : Injective(s)},
                        is \in [1..n -> Vals]}
                        : n \in 0..(b \div 2)}

Size(n) == Len(n.keys) + Len(n.items)

Mentions(n, v) == v \in Range(n.keys) \cup Range(n.items)

OneNodeHeaps == {<<n>> : n \in NodesOf({IntV(1), Ref(1)}, MaxSize)}

TwoNodeHeaps ==
    LET Ns == NodesOf({IntV(1), Ref(1), Ref(2)}, MaxSize)
    IN  {<<n1, n2>> : n1 \in {n \in Ns : Mentions(n, Ref(2))},
                      n2 \in {n \in Ns : Size(n) < MaxSize}}

GeneratedHeaps ==
    OneNodeHeaps \cup {h \in TwoNodeHeaps : Size(h[1]) + Size(h[2]) <= MaxSize}

GeneratedInputs ==
    {In(h, Ref(1), c) : h \in GeneratedHeaps, c \in {"default", "arrKids"}}

Inputs ==
    ScalarInputs \cup TestInputs \cup OptionInputs \cup DictionaryInputs
        \cup GeneratedInputs

\* the values handed to one atomizer in consecutive calls: its builders stay
CallInputs ==
    {In(h, Ref(1), c) :
        h \in {<<AArray>>, <<XArray>>, <<Oof>>, YHeap, NestedHeap, TwiceHeap,
               LoopHeap, SharedHeap, OrderedObj},
        c \in {"default", "arrKids"}}
        \cup {In(<<>>, v, c) : v \in {Null, IntV(128), StrV(4), Fn},
                               c \in {"default", "arrKids"}}

-----------------------------------------------------------------------------
(* The calls made on the atom stream once atomize has returned it *)

\* what a caller may append to a stream before handing it to a decoder
ExcessCells == SeqsUpTo({Undef, IntV(AtomAsIs)}, MaxExcess)
ExcessBytes == SeqsUpTo({0, SerialVoid, 255}, MaxExcess)

\* the strict prefixes of a stream, the empty one included
Prefixes(full) == {SubSeq(full, 1, n) : n \in 0..(Len(full) - 1)}

\* the streams a caller may hand to a decoder: what the encoder produced,
\* with cells or bytes appended, or cut short
CellsGiven == {output \o extra : extra \in ExcessCells} \cup Prefixes(output)
BytesGiven == {bytes.data \o extra : extra \in ExcessBytes} \cup Prefixes(bytes.data)

\* rebuilder(custom)(full)
Rebuild ==
    /\ phase = "atomized"
    /\ \E full \in CellsGiven : rebuilt' = [full |-> full] @@ rebuild(full, cfg)
    /\ phase' = "rebuilt"
    /\ UNCHANGED <<Input, output, refs, jumps, atomIndex, activeIndex, activeVal,
                   stack, err, trace, bytes, decoded, Calls>>

\* serialize(output)
Serialize ==
    /\ phase = "atomized"
    /\ bytes' = serialize(output)
    /\ phase' = "serialized"
    /\ UNCHANGED <<Input, output, refs, jumps, atomIndex, activeIndex, activeVal,
                   stack, err, trace, rebuilt, decoded, Calls>>

\* deserializer(custom)(bytes ++ extra)
Deserialize ==
    /\ phase = "serialized"
    /\ bytes.ok
    /\ \E full \in BytesGiven : decoded' = [full |-> full] @@ deserialize(full, cfg)
    /\ phase' = "deserialized"
    /\ UNCHANGED <<Input, output, refs, jumps, atomIndex, activeIndex, activeVal,
                   stack, err, trace, rebuilt, bytes, Calls>>

-----------------------------------------------------------------------------
(* Specification *)

InitWith(S) ==
    /\ \E in \in S : heap = in.heap /\ root = in.root /\ cfg = in.cfg
    /\ FreshCall
    /\ rebuilt = NoResult
    /\ bytes = NoBytes
    /\ decoded = NoResult
    /\ calls = 1
    /\ first = NoFirst
    /\ packed = NoPacked

Init == InitWith(Inputs)

\* refs kept from one call to the next
ResetRefsKept(r) == r

\* the refs a new call of the same atomizer starts with
ResetRefs(r) == EmptyRefs

\* the atomizer is called again: atomize(full) starts with its own
\* output, refs, jumps, atomIndex, activeIndex and activeVal
NewCall ==
    /\ phase \in {"atomized", "failed"}
    /\ calls < MaxCalls
    /\ calls' = calls + 1
    /\ first' = IF first.set THEN [first EXCEPT !.between = Append(@, phase)]
                ELSE [set |-> TRUE, heap |-> heap, root |-> root, cfg |-> cfg,
                      phase |-> phase, output |-> output, err |-> err,
                      between |-> <<>>]
    /\ \E in \in {i \in CallInputs : i.cfg = cfg} :
           heap' = in.heap /\ root' = in.root /\ cfg' = cfg
    /\ output' = <<>>
    /\ refs' = ResetRefs(refs) @@ DictionaryRefs(cfg)
    /\ jumps' = <<>>
    /\ atomIndex' = DictionaryNext(cfg)
    /\ activeIndex' = 0
    /\ activeVal' = RAW
    /\ stack' = <<>>
    /\ err' = ""
    /\ trace' = <<>>
    /\ phase' = "start"
    /\ UNCHANGED <<Pipeline, packed>>

InitCalls == InitWith(CallInputs)

NextCalls ==
    \/ AtomizerStep
    \/ NewCall

SpecCalls == InitCalls /\ [][NextCalls]_vars

\* the atomizer, and POP_JUMP on outputs longer than a run can build
NextJump == AtomizerStep \/ PopJumpAt
SpecJump == InitCalls /\ [][NextJump]_vars

Next ==
    \/ AtomizerStep
    \/ Rebuild
    \/ Serialize
    \/ Deserialize

Spec == Init /\ [][Next]_vars

\* atomize is one synchronous call: once entered it runs until it returns or
\* throws
SpecFair == Spec /\ WF_vars(AtomizerStep)

-----------------------------------------------------------------------------
(* Properties *)

Encoded == phase \in {"atomized", "rebuilt", "serialized", "deserialized"}

\* the decoder was handed exactly what the encoder produced
ExactRebuilt == phase = "rebuilt" /\ rebuilt.full = output
ExactDecoded == phase = "deserialized" /\ decoded.full = bytes.data

Opens(v) == {k \in DOMAIN trace : trace[k][1] = "open" /\ trace[k][2] = v}
BackRefs(v) == {k \in DOMAIN trace : trace[k][1] = "ref" /\ trace[k][2] = v}
OnStack(v) == \E k \in DOMAIN stack : stack[k].val = v

\* the number of places of the graph that hold v
Places(v) ==
    Cardinality({<<i, j>> \in (DOMAIN heap) \X (1..8) :
                     j <= Len(Kids(heap, Ref(i))) /\ Kids(heap, Ref(i))[j] = v})
        + (IF root = v THEN 1 ELSE 0)

\* C1: Round trip through bytes: with the default builders and no custom
\* decoder, deserializer()(serialize(atomizer()(v))) succeeds and is
\* structurally equal to v, object identity included.
C1_RoundTripBytes ==
    (ExactDecoded /\ cfg = "default") =>
        decoded.ok /\ Isomorphic(heap, root, decoded.heap, decoded.val)

\* the graph holds values of the kinds the default builders encode only
Supported ==
    /\ root \notin Unknowns
    /\ \A i \in DOMAIN heap : Range(Kids(heap, Ref(i))) \cap Unknowns = {}

\* the map y of the tests, rebuilt: y'.get(1) = "hi", y'.get("hi") = 4 and the
\* third value is a Set whose first element is y' itself
IsY(h, v) ==
    /\ IsRef(v)
    /\ h[v[2]].kind = "Map"
    /\ h[v[2]].keys[1] = IntV(1) /\ h[v[2]].items[1] = StrV(4)
    /\ h[v[2]].keys[2] = StrV(4) /\ h[v[2]].items[2] = IntV(4)
    /\ IsRef(h[v[2]].items[3])
    /\ h[h[v[2]].items[3][2]].kind = "Set"
    /\ h[h[v[2]].items[3][2]].items[1] = v

\* C2: Round trip through the atom stream: with the default builders atomize
\* never fails and rebuilder()(atomizer()(v)) is isomorphic to v, Maps keyed
\* by objects and Sets holding an ancestor included (the map y of the tests).
C2_RoundTripAtoms ==
    (cfg = "default" /\ Supported) =>
        /\ phase # "failed"
        /\ ExactRebuilt =>
              /\ rebuilt.ok
              /\ Isomorphic(heap, root, rebuilt.heap, rebuilt.val)
              /\ heap = YHeap => IsY(rebuilt.heap, rebuilt.val)

C2_Witness ==
    /\ ExactRebuilt /\ cfg = "default" /\ heap = YHeap
    /\ rebuilt.ok /\ IsY(rebuilt.heap, rebuilt.val)

\* the two graphs hold objects of the same kinds and sizes at the same places,
\* and two places hold one object in the one graph exactly when they do in
\* the other
SameSharing(h1, v1, h2, v2) ==
    LET R == Paired(h1, h2, {<<v1, v2>>})
    IN  /\ \A p \in R : /\ IsRef(p[1]) <=> IsRef(p[2])
                        /\ IsRef(p[1]) => Shape(h1, p[1]) = Shape(h2, p[2])
        /\ \A p, q \in R : IsRef(p[1]) /\ IsRef(q[1]) =>
                               ((p[1] = q[1]) <=> (p[2] = q[2]))

\* C3: Sharing preservation: with the default builders an object held at n
\* places of the graph is encoded in full exactly once (one header of its
\* kind) and each of its other n - 1 occurrences is one back-reference cell
\* carrying ~(its atom-index); both decoders give the places one same object.
C3_SharingPreserved ==
    (Encoded /\ cfg = "default") =>
        /\ \A i \in DOMAIN heap :
              LET v == Ref(i)
              IN  /\ Cardinality(Opens(v)) = 1
                  /\ Cardinality(BackRefs(v)) = Places(v) - 1
                  /\ \A k \in Opens(v) :
                        /\ And32(output[trace[k][4] + 1][2], ATOM_BITS_MASK)
                               = KindCode(heap[i].kind)
                        /\ \A b \in BackRefs(v) :
                              output[trace[b][4] + 1] = IntV(Not32(trace[k][3]))
        /\ ExactRebuilt =>
              rebuilt.ok /\ SameSharing(heap, root, rebuilt.heap, rebuilt.val)
        /\ ExactDecoded =>
              decoded.ok /\ SameSharing(heap, root, decoded.heap, decoded.val)

C3_Witness ==
    /\ ExactDecoded /\ cfg = "default" /\ heap = SharedHeap
    /\ Cardinality(BackRefs(Ref(2))) = 1
    /\ decoded.ok
    /\ decoded.heap[decoded.val[2]].items[1] = decoded.heap[decoded.val[2]].items[2]
    /\ IsRef(decoded.heap[decoded.val[2]].items[1])

\* what a decoder gave for x = [x], for x = [1, x] and for o = {test: o}
SelfArray(res) ==
    /\ res.ok /\ IsRef(res.val)
    /\ res.heap[res.val[2]] = Node("Array", <<>>, <<res.val>>)
OneSelfArray(res) ==
    /\ res.ok /\ IsRef(res.val)
    /\ res.heap[res.val[2]] = Node("Array", <<>>, <<IntV(1), res.val>>)
SelfObject(res) ==
    /\ res.ok /\ IsRef(res.val)
    /\ res.heap[res.val[2]] = Node("Object", <<StrV(6)>>, <<res.val>>)

CycleInputs == {<<AArray>>, <<XArray>>, <<Oof>>}

SelfTied(res) ==
    CASE heap = <<AArray>> -> SelfArray(res)
      [] heap = <<XArray>> -> OneSelfArray(res)
      [] OTHER -> SelfObject(res)

\* C4: Cycle preservation: for x = [x], x = [1, x] and o = {test: o} atomize
\* succeeds, the encoding of the value holds the back-reference -1 = ~0 to
\* the value's own atom-index 0, and both decoders return y with y[0] = y
\* (resp. y = [1, y]; resp. o'.test = o').
C4_CyclePreserved ==
    (cfg = "default" /\ heap \in CycleInputs) =>
        /\ phase # "failed"
        /\ Encoded =>
              output = CASE heap = <<AArray>> -> <<IntV(17), IntV(-1)>>
                         [] heap = <<XArray>> ->
                               <<IntV(33), IntV(0), IntV(1), IntV(-1)>>
                         [] OTHER -> <<IntV(18), StrV(6), IntV(-1)>>
        /\ ExactRebuilt => SelfTied(rebuilt)
        /\ ExactDecoded => SelfTied(decoded)

C4_Witness ==
    /\ cfg = "default" /\ heap = <<XArray>> /\ ExactDecoded /\ OneSelfArray(decoded)

\* the frames that have been opened and have returned
Closed(k) == trace[k][1] = "open" /\ ~OnStack(trace[k][2])

\* C5: A value whose builder wrote children without AllowSelfReference and
\* returned cacheable is, once its frame has closed, registered in refs under
\* ~(its atom-index), not under the sentinel; [null, null] with the null
\* encoder that writes "a", "b", "c" and returns AS_IS encodes without error.
C5_PromotedOnClose ==
    /\ \A k \in DOMAIN trace :
          LET v == trace[k][2]
          IN  (/\ Closed(k)
               /\ HasCustom(cfg, Classify(heap, v))
               /\ UserResult(cfg, v)
               /\ UserOps(cfg, heap, v) # <<>>)
                  => v \in DOMAIN refs /\ refs[v] = Not32(trace[k][3])
    /\ (heap = NullsHeap /\ cfg = "nullABC") => phase # "failed"

\* what a decoder gave for ["hi", a] with a = [a]
HiSelf(res) ==
    /\ res.ok /\ IsRef(res.val)
    /\ res.heap[res.val[2]].kind = "Array"
    /\ Len(res.heap[res.val[2]].items) = 2
    /\ res.heap[res.val[2]].items[1] = StrV(4)
    /\ IsRef(res.heap[res.val[2]].items[2])
    /\ res.heap[res.val[2]].items[2] # res.val
    /\ res.heap[res.heap[res.val[2]].items[2][2]]
           = Node("Array", <<>>, <<res.heap[res.val[2]].items[2]>>)

\* C6: With the string encoder that writes one child (true for "hi", false
\* otherwise) and caches nothing, and the decoder that reads once, ["hi", a]
\* with a = [a] encodes and decodes (from atoms and from bytes) to
\* ["hi", a'] with a'[0] = a'.
C6_CustomLeafRoundTrip ==
    (cfg = "strBool" /\ heap = HiHeap) =>
        /\ phase # "failed"
        /\ ExactRebuilt => HiSelf(rebuilt)
        /\ ExactDecoded => HiSelf(decoded)

C6_Witness == cfg = "strBool" /\ heap = HiHeap /\ ExactDecoded /\ HiSelf(decoded)

\* the decoded root has the keys of the root, in order, each with its value
SameOrder(res) ==
    /\ res.ok /\ IsRef(res.val)
    /\ Len(res.heap[res.val[2]].keys) = Len(heap[root[2]].keys)
    /\ \A i \in DOMAIN heap[root[2]].keys :
          /\ Isomorphic(heap, heap[root[2]].keys[i],
                        res.heap, res.heap[res.val[2]].keys[i])
          /\ Isomorphic(heap, heap[root[2]].items[i],
                        res.heap, res.heap[res.val[2]].items[i])

\* C7: Ordering: the keys of a Map or Object are written in iteration order
\* before the until-index and the values in the same order after it, and
\* both decoders give back the same keys in the same order, each with its
\* own value (Map{c: 1, a: 2, b: self} is header, c, a, b, 1, 2, self).
C7_OrderPreserved ==
    (cfg = "default" /\ IsRef(root) /\ heap[root[2]].kind \in {"Map", "Object"}) =>
        /\ (Encoded /\ heap = OrderHeap) =>
              output = <<IntV(35), StrV(3), StrV(1), StrV(2),
                         IntV(0), IntV(1), IntV(0), IntV(2), IntV(-1)>>
        /\ ExactRebuilt => SameOrder(rebuilt)
        /\ ExactDecoded => SameOrder(decoded)

C7_Witness ==
    /\ cfg = "default" /\ heap = OrderHeap /\ ExactDecoded /\ decoded.ok
    /\ decoded.heap[decoded.val[2]].keys = <<StrV(3), StrV(1), StrV(2)>>
    /\ decoded.heap[decoded.val[2]].items = <<IntV(1), IntV(2), decoded.val>>

\* C8: Determinism and call isolation: every call starts from its own empty
\* output, refs and jumps, atomIndex 0 and no active frame, and a call on
\* the value of the first call ends as the first call did, with the same
\* atom stream, whatever the calls between them did.
C8_CallsIsolated ==
    /\ phase = "start" =>
          /\ output = <<>> /\ refs = EmptyRefs /\ jumps = <<>>
          /\ atomIndex = 0 /\ activeIndex = 0 /\ activeVal = RAW /\ stack = <<>>
    /\ (/\ first.set /\ phase \in {"atomized", "failed"}
        /\ heap = first.heap /\ root = first.root /\ cfg = first.cfg)
          => /\ phase = first.phase
             /\ err = first.err
             /\ phase = "atomized" =>
                   /\ output = first.output
                   /\ serialize(output) = serialize(first.output)

C8_Witness ==
    /\ first.set /\ phase = "atomized"
    /\ heap = first.heap /\ root = first.root /\ cfg = first.cfg
    /\ heap = NestedHeap
    /\ \E i \in DOMAIN first.between : first.between[i] = "failed"
    /\ output = first.output

\* an open frame of v that has not called ALLOW_SELF_REFERENCE
OpenUnallowed(v) == \E k \in DOMAIN stack : stack[k].val = v /\ ~stack[k].allowed

\* C9: InfiniteLoop: a child write of a value that has an open frame which
\* did not call AllowSelfReference aborts the call with "infinite loop when
\* encoding": no cell is emitted and no frame is opened.
C9_InfiniteLoop ==
    [][(AtOp("child") /\ OpenUnallowed(Arg)) =>
           /\ phase' = "failed"
           /\ err' = "infinite loop when encoding"
           /\ output' = output
           /\ stack' = stack]_vars

C9_Witness ==
    /\ phase = "failed" /\ err = "infinite loop when encoding"
    /\ Len(stack) = 2
    /\ TopOps[Top.pc] = Op("child", stack[1].val)
    /\ ~stack[1].allowed

\* the stream handed to the decoder is what the encoder produced and more
Longer(full, made) == Len(full) > Len(made) /\ SubSeq(full, 1, Len(made)) = made

\* the stream handed to the decoder is a strict prefix of what was produced
Shorter(full, made) == Len(full) < Len(made) /\ SubSeq(made, 1, Len(full)) = full

\* C10: ExcessContent on bytes: when the deserializer has decoded the
\* top-level value and bytes remain (cursor before the end), deserialize fails.
C10_ExcessBytesFail ==
    (phase = "deserialized" /\ decoded.pos < decoded.len) => ~decoded.ok

\* C11: ExcessContent on atoms: when cells remain after the rebuilder has
\* rebuilt the top-level value, rebuild fails; an atom stream of the default
\* builders with cells appended fails with 'rebuilder given excess content'.
C11_ExcessCellsFail ==
    /\ (phase = "rebuilt" /\ rebuilt.pos < rebuilt.len) => ~rebuilt.ok
    /\ (phase = "rebuilt" /\ cfg = "default" /\ Longer(rebuilt.full, output)) =>
           rebuilt.err = "rebuilder given excess content"

C11_Witness ==
    /\ phase = "rebuilt" /\ cfg = "default" /\ heap = YHeap
    /\ Longer(rebuilt.full, output)
    /\ rebuilt.pos = Len(output)
    /\ rebuilt.err = "rebuilder given excess content"

\* C12: IncompleteData on bytes: for every strict prefix of the bytes that
\* serialize produced, deserialize fails and returns no value.
C12_CutBytesFail ==
    (phase = "deserialized" /\ Shorter(decoded.full, bytes.data)) => ~decoded.ok

\* C13: IncompleteData on atoms: for every strict prefix, the empty one
\* included, of an atom stream of the default builders rebuild fails with
\* 'Incomplete data'.
C13_CutCellsFail ==
    (phase = "rebuilt" /\ cfg = "default" /\ Shorter(rebuilt.full, output)) =>
        ~rebuilt.ok /\ rebuilt.err = "Incomplete data"

\* cut inside the values of the map y, after its keys have been read
C13_Witness ==
    /\ phase = "rebuilt" /\ cfg = "default" /\ heap = YHeap
    /\ Shorter(rebuilt.full, output)
    /\ Len(rebuilt.full) = Len(output) - 1
    /\ rebuilt.err = "Incomplete data"

\* the builder of the top frame has returned
Returned == Running /\ Top.pc > Len(TopOps)

\* C14: ValueEncodedIntoNothing: when a builder returns and the output is as
\* long as when its frame was entered, encode aborts with 'Value encoded into
\* nothing'; a frame that appended a cell, itself or through the children it
\* wrote, returns without error, and the error is raised at no other place.
C14_EncodedNothing ==
    [][/\ Returned =>
             IF Len(output) = Top.prevLength
             THEN /\ phase' = "failed"
                  /\ err' = "Value encoded into nothing"
                  /\ output' = output
             ELSE phase' # "failed" /\ err' = ""
       /\ (err' = "Value encoded into nothing" /\ err = "") =>
             Returned /\ Len(output) = Top.prevLength]_vars

\* [1, undefined] with a void builder that writes nothing: the frame of
\* undefined fails inside the frame of the array, which has cells
C14_Witness ==
    /\ phase = "failed" /\ err = "Value encoded into nothing"
    /\ cfg = "bare" /\ heap = VoidHeap
    /\ Len(stack) = 2 /\ Top.val = Undef
    /\ output = <<IntV(AtomAsIs), IntV(1)>>

\* C15: UnsupportedValue: a function, symbol or instance without a user
\* builder aborts the encoding with 'No way to atomize' when keepUnknownsAsIs
\* is false; when it is true the value is appended as one inline cell and
\* the encoding succeeds.
C15_UnknownValues ==
    /\ (cfg = "default" /\ ~Supported) =>
          ~Encoded /\ (phase = "failed" => err = "No way to atomize")
    /\ (cfg = "keepAsIs" /\ ~Supported) =>
          /\ phase # "failed"
          /\ (Encoded /\ root \in Unknowns) => output = <<root>>
          /\ (Encoded /\ heap = UnknownsHeap) =>
                output = <<IntV(Combined(4, AtomArray)), Fn, Inst, Fn>>

\* C16: JumpOverflow: PopJump pops the last pushed offset i and stores
\* (output length << ATOM_BITS) | kind at output[i], kind being what PushJump
\* left there; when the packed int32 does not give the length back under
\* >> ATOM_BITS the call aborts with 'value too large to encode', so a stored
\* header is never negative and decodes to the exact length and kind.
C16_JumpOverflow ==
    [][/\ AtOp("pop") =>
             LET i == jumps[Len(jumps)]
                 kind == output[i + 1][2]
             IN  /\ jumps' = SubSeq(jumps, 1, Len(jumps) - 1)
                 /\ phase' # "failed"
                 /\ output' = [output EXCEPT ![i + 1] = IntV(Len(output) * 8 + kind)]
       /\ packed'.set =>
             /\ packed'.ok <=> packed'.jump < 268435456
             /\ packed'.ok =>
                   /\ packed'.header >= 0
                   /\ packed'.header \div 8 = packed'.jump
                   /\ packed'.header % 8 = packed'.kind]_vars

\* 2^28 cells: the packed value is negative and the call aborts
C16_Witness ==
    /\ packed.set /\ packed.jump = 268435456 /\ packed.kind = AtomArray
    /\ ~packed.ok /\ packed.header < 0

\* 0, -1, 2^30 - 1, -(2^30 - 1), 2^30 and -2^30
BoundaryInts == {0, -1, 1073741823, -1073741823, 1073741824, -1073741824}

\* C17: Integer boundaries: for n in {0, -1, +-(2^30 - 1), +-2^30} the first
\* byte of serialize(atomize(n)) has the Int tag in its low 3 bits and the
\* sign bit set exactly when n < 0, the varint read back is the twiddled
\* value with no bit lost, and deserialize returns exactly n.
C17_IntegerBoundaries ==
    \A n \in BoundaryInts :
        (cfg = "default" /\ root = IntV(n)) =>
            /\ phase # "failed"
            /\ bytes.done =>
                  /\ bytes.ok
                  /\ And32(bytes.data[1], ATOM_BITS_MASK) = SerialInt
                  /\ (And32(bytes.data[1], Shl32(1, INT_BITS)) # 0) <=> (n < 0)
                  /\ readVarInt(bytes.data, 1, bytes.data[1], INT_BITS)
                         = [pos |-> Len(bytes.data), int |-> Twiddle(n)]
            /\ ExactDecoded =>
                  /\ decoded.ok /\ decoded.val = IntV(n)
                  /\ decoded.pos = decoded.len

C17_Witness ==
    /\ cfg = "default" /\ root = IntV(-1073741824) /\ ExactDecoded
    /\ decoded.ok /\ decoded.val = root
    /\ Len(bytes.data) = 5

\* C18: a custom encoder that writes no child: the stream gets one Custom
\* header whose until-index is its own position + 1, 'Value encoded into
\* nothing' is not raised, and rebuild and deserialize read exactly that
\* header and return what the decoder returns.
C18_EmptyCustom ==
    cfg = "nullNone" =>
        /\ phase # "failed"
        /\ \A k \in DOMAIN trace :
              (trace[k][1] = "open" /\ trace[k][2] = Null /\ Closed(k)) =>
                  output[trace[k][4] + 1]
                      = IntV(Combined(trace[k][4] + 1, AtomCustom))
        /\ (Encoded /\ root = Null) => output = <<IntV(Combined(1, AtomCustom))>>
        /\ (Encoded /\ heap = NullAHeap) =>
              output = <<IntV(Combined(3, AtomArray)),
                         IntV(Combined(2, AtomCustom)), StrV(1)>>
        /\ ExactRebuilt =>
              /\ rebuilt.ok /\ rebuilt.pos = rebuilt.len
              /\ Isomorphic(heap, root, rebuilt.heap, rebuilt.val)
        /\ ExactDecoded =>
              /\ decoded.ok /\ decoded.pos = decoded.len
              /\ Isomorphic(heap, root, decoded.heap, decoded.val)

C18_Witness ==
    /\ cfg = "nullNone" /\ heap = NullAHeap /\ ExactDecoded /\ decoded.ok
    /\ decoded.heap[decoded.val[2]].items = <<Null, StrV(1)>>
    /\ bytes.data[2] = Or32(Shl32(AtomCustom, 1), SerialComplexAtom)

\* a decoder's cache holds at the atom-index of every custom-encoded null
\* the null its decoder returned
SlotsAgree(res) ==
    \A k \in DOMAIN trace :
        (trace[k][1] = "open" /\ trace[k][2] = Null) =>
            CacheAt(res.cache, trace[k][3]) = Null

\* the value of a dictionary slot is never atomized in full, is not a cell of
\* the output, and each of its places is a back-reference to its slot
SlotAgrees(slot) ==
    LET val == Dictionary(cfg)[slot + 1]
    IN  /\ Opens(val) = {}
        /\ \A k \in DOMAIN output : output[k] # val
        /\ \A k \in BackRefs(val) : trace[k][3] = Not32(slot)
        /\ Encoded => Cardinality(BackRefs(val)) = Places(val)

\* C19: Dictionary agreement: with the encoder and the decoder built over
\* the same dictionary [A, B], every occurrence of A or B in the input is
\* emitted as a back-reference to its dictionary slot, the contents of A and
\* B are not in the output, and decoding restores A and B at those places.
C19_DictionaryAgreement ==
    cfg = "dict" =>
        /\ \A slot \in 0..(Len(Dictionary(cfg)) - 1) : SlotAgrees(slot)
        /\ ExactRebuilt =>
              rebuilt.ok /\ Isomorphic(heap, root, rebuilt.heap, rebuilt.val)
        /\ ExactDecoded =>
              decoded.ok /\ Isomorphic(heap, root, decoded.heap, decoded.val)

\* C20: Custom decode reserves its cache slot first: the reconstruction of a
\* custom-encoded value is at the cache index equal to its atom-index, before
\* the slots of the children its encoder wrote, so a back-reference to the
\* value or to a cacheable child of it resolves to that value's reconstruction.
C20_CustomSlotFirst ==
    cfg \in {"nullABC", "nullNone"} =>
        /\ ExactRebuilt =>
              /\ rebuilt.ok /\ SlotsAgree(rebuilt)
              /\ Isomorphic(heap, root, rebuilt.heap, rebuilt.val)
        /\ ExactDecoded =>
              /\ decoded.ok /\ SlotsAgree(decoded)
              /\ Isomorphic(heap, root, decoded.heap, decoded.val)

\* the trace entries of the composites atomize opened, in the order of their
\* headers
Headers == {k \in DOMAIN trace : trace[k][1] = "open" /\ IsRef(trace[k][2])}

\* the cache slot of the composite opened at trace entry k holds a container
\* of its kind
ShellCached(res, k) ==
    LET shell == CacheAt(res.cache, trace[k][3])
    IN  /\ IsRef(shell)
        /\ shell[2] \in DOMAIN res.heap
        /\ res.heap[shell[2]].kind = heap[trace[k][2][2]].kind

\* the containers were allocated in the order of their headers, each before
\* the containers of its subtree
ShellsInOrder(res) ==
    \A k1, k2 \in Headers :
        k1 < k2 => CacheAt(res.cache, trace[k1][3])[2]
                       < CacheAt(res.cache, trace[k2][3])[2]

RunOpen(f) ==
    LET ops == BuilderOps(cfg, heap, f.val)
    IN  /\ \E i \in DOMAIN ops : ops[i][1] = "push" /\ i < f.pc
        /\ \E i \in DOMAIN ops : ops[i][1] = "pop" /\ i >= f.pc

\* the open frames of val whose first child-run is still open
OpenRuns(val) == {k \in DOMAIN stack : stack[k].val = val /\ RunOpen(stack[k])}

\* the step is a child write that emits a back-reference
EmitsBackRef == AtOp("child") /\ Len(output') = Len(output) + 1

\* the atom-index given to the frame of val that is open
OpenIndex(val) == trace[CHOOSE k \in Opens(val) : \A j \in Opens(val) : j <= k][3]

\* C22 as stated: no back-reference cell targets a composite whose first
\* child-run is still open at the position where the back-reference is
\* emitted.
C22_NoRefIntoOpenRun ==
    [][EmitsBackRef => OpenRuns(Arg) = {}]_vars

\* C22: a back-reference into the still open first child-run of its target
\* is emitted only for a target whose builder has called AllowSelfReference,
\* and the cell is ~(the target's atom-index); the default Array, Object, Map
\* and Set builders call it first, so with them a value that contains itself
\* never fails with 'infinite loop when encoding'.
C22_RefIntoOpenRunAllowed ==
    /\ [][(EmitsBackRef /\ OpenRuns(Arg) # {}) =>
             /\ \A k \in OpenRuns(Arg) : stack[k].allowed
             /\ output'[Len(output')] = IntV(Not32(OpenIndex(Arg)))]_vars
    /\ [](cfg = "default" => err # "infinite loop when encoding")

\* x = [1, x]: the back-reference -1 to x has been written inside x's run
C22_Witness ==
    /\ cfg = "default" /\ heap = <<XArray>> /\ phase = "atomizing"
    /\ output = <<IntV(AtomArray), IntV(AtomAsIs), IntV(1), IntV(-1)>>
    /\ OpenRuns(Ref(1)) # {}
    /\ BackRefs(Ref(1)) # {}

\* the integers that fit in a signed byte
SmallInt(v) == IsInt(v) /\ -128 <= v[2] /\ v[2] < 128

\* C23: Small integers are not cacheable: an integer n with -128 <= n < 128
\* is never registered in refs, so every occurrence is emitted inline and
\* never as a back-reference; an integer outside that range is cacheable and a
\* repeated occurrence is emitted as a back-reference.
C23_SmallIntsInline ==
    /\ \A v \in DOMAIN refs : ~SmallInt(v)
    /\ \A k \in DOMAIN trace : trace[k][1] = "ref" => ~SmallInt(trace[k][2])
    /\ (Encoded /\ cfg = "default" /\ heap = SharedHeap) =>
          /\ Cardinality(Opens(IntV(128))) = 1
          /\ Cardinality(BackRefs(IntV(128))) = 1

\* the atom-index consumed by the k-th value written, in full or as a
\* back-reference: the root has the first one
AtomIndexOf(k) == DictionaryNext(cfg) + k - 1

\* what a decoder's cache holds at the atom-index of the k-th value written
SlotOf(res, k) == CacheAt(res.cache, AtomIndexOf(k))

\* every atom-index has its cache slot, filled with the reconstruction of the
\* value that was given the index; a back-reference's slot holds its target's
CacheAgrees(res) ==
    /\ Len(res.cache) = DictionaryNext(cfg) + Len(trace)
    /\ \A k \in DOMAIN trace :
          /\ Isomorphic(heap, trace[k][2], res.heap, SlotOf(res, k))
          /\ trace[k][1] = "ref" =>
                /\ Not32(trace[k][3]) < AtomIndexOf(k)
                /\ SlotOf(res, k) = CacheAt(res.cache, Not32(trace[k][3]))

\* C24: Back-reference range and index agreement: every back-reference cell
\* -k atomize emits has 0 < k <= the atom-index the reference itself consumes,
\* so it names an atom-index assigned strictly earlier; the reference consumes
\* one atom-index on the encoder and one cache slot on the decoder, so with
\* the default builders the rebuilder reads no unfilled slot and cache[i] is
\* the reconstruction of the value given atom-index i.
C24_BackRefRange ==
    /\ [][EmitsBackRef =>
             LET cell == output'[Len(output')][2]
             IN  /\ cell < 0
                 /\ -cell <= atomIndex'
                 /\ atomIndex' = atomIndex + 1]_vars
    /\ []((ExactRebuilt /\ cfg = "default" /\ rebuilt.ok) => CacheAgrees(rebuilt))

\* [o, o, 128, 128] with o = { a: "a" }: three back-references, seven cache
\* slots, and the slot of the second o holds the first
C24_Witness ==
    /\ ExactRebuilt /\ cfg = "default" /\ heap = SharedHeap /\ rebuilt.ok
    /\ Len(rebuilt.cache) = 7
    /\ Cardinality({k \in DOMAIN trace : trace[k][1] = "ref"}) = 3
    /\ trace[5][1] = "ref" /\ IsRef(SlotOf(rebuilt, 5))
    /\ SlotOf(rebuilt, 5) = SlotOf(rebuilt, 2)

\* the trace entries of the values written by the builder of entry k itself
ChildrenOf(k) ==
    {j \in DOMAIN trace :
        /\ j > k
        /\ trace[j][5] = trace[k][5] + 1
        /\ \A i \in (k + 1)..j : trace[i][5] > trace[k][5]}

\* the until-index the header at position p carries
UntilOf(p) == Sar32(output[p + 1][2], ATOM_BITS)

\* the n keys of the Object or Map of entry k start after its header and
\* before its until-index, its n values from the until-index on
KeysThenValues(k) ==
    LET n == Len(heap[trace[k][2][2]].keys)
        p == trace[k][4]
        before == {j \in ChildrenOf(k) : p < trace[j][4] /\ trace[j][4] < UntilOf(p)}
        after == {j \in ChildrenOf(k) : trace[j][4] >= UntilOf(p)}
    IN  /\ And32(output[p + 1][2], ATOM_BITS_MASK) \in {AtomObject, AtomMap}
        /\ Cardinality(before) = n
        /\ Cardinality(after) = n
        /\ \A j \in before : \A i \in after : j < i
        /\ n > 0 => /\ \E j \in before : trace[j][4] = p + 1
                    /\ \E j \in after : trace[j][4] = UntilOf(p)

\* the entries of the Objects and Maps the default builders encoded
Entries ==
    {k \in Headers : Classify(heap, trace[k][2]) \in {"Map", "object"}}

\* C25: Object/Map layout: for every Object or Map with n entries (default
\* builders) exactly n key encodings lie between the header and its
\* until-index and exactly n value encodings follow, starting at the
\* until-index; the serializer and the rebuilder consume as many value
\* encodings after the boundary as they counted key encodings before it.
C25_KeysThenValues ==
    (Encoded /\ cfg \in {"default", "dict", "keepAsIs"}) =>
        /\ \A k \in Entries : KeysThenValues(k)
        /\ (ExactRebuilt /\ Entries # {}) =>
              /\ rebuilt.ok /\ rebuilt.pos = Len(output)
              /\ Isomorphic(heap, root, rebuilt.heap, rebuilt.val)
        /\ (ExactDecoded /\ Entries # {}) =>
              /\ decoded.ok /\ decoded.pos = Len(bytes.data)
              /\ Isomorphic(heap, root, decoded.heap, decoded.val)

\* { b: 1.5, a: NaN } decoded from its bytes: two keys before the boundary
\* and two values after it
C25_Witness ==
    /\ ExactDecoded /\ cfg = "default" /\ heap = OrderedObj /\ decoded.ok
    /\ Cardinality(ChildrenOf(1)) = 4
    /\ UntilOf(0) = 3
    /\ Len(decoded.heap[decoded.val[2]].keys) = 2

\* two decode results are the same value, built in the same order: the same
\* objects allocated one after the other and the same cache, slot by slot
SameDecode(r, d) ==
    /\ r.ok /\ d.ok
    /\ d.val = r.val
    /\ d.heap = r.heap
    /\ d.cache = r.cache

\* C26: The two decode paths agree: for every atom stream s atomize produces
\* with the default builders, deserializer()(serialize(s)) and rebuilder()(s)
\* build isomorphic values with caches filled in the same order, and the byte
\* until the deserializer computes from a composite's byte-length prefix is
\* the end of the last cell of its first child-run: the bytes are consumed to
\* their end.
C26_DecodePathsAgree ==
    (ExactDecoded /\ cfg = "default") =>
        /\ SameDecode(rebuild(output, cfg), decoded)
        /\ decoded.pos = decoded.len

\* the entries of the values whose builder pushed a header: it is the cell at
\* the position the entry records
Headed == {k \in DOMAIN trace :
              /\ trace[k][1] = "open"
              /\ \E i \in DOMAIN BuilderOps(cfg, heap, trace[k][2]) :
                    BuilderOps(cfg, heap, trace[k][2])[i][1] = "push"}

\* the default-built containers without elements or entries
EmptyComposite(v) ==
    /\ IsRef(v) /\ Kids(heap, v) = <<>>
    /\ BuilderOps(cfg, heap, v) = DefaultOps(heap, v)

\* C27: Until-index invariant: in every atom stream atomize produces, a
\* composite header at position p carries an until-index u with
\* p < u <= stream length (u = p + 1 for an empty array, set, object or map),
\* and child-runs are properly nested: a header inside the child-run of
\* another composite has an until-index not greater than the outer one.
C27_UntilIndex ==
    Encoded =>
        /\ \A k \in Headed :
              LET p == trace[k][4]
              IN  /\ p < UntilOf(p) /\ UntilOf(p) <= Len(output)
                  /\ EmptyComposite(trace[k][2]) => UntilOf(p) = p + 1
        /\ \A k1, k2 \in Headed :
              (trace[k1][4] < trace[k2][4] /\ trace[k2][4] < UntilOf(trace[k1][4]))
                  => UntilOf(trace[k2][4]) <= UntilOf(trace[k1][4])

\* [["a", "a2"], "b"]: the inner header at 1 ends at 4, inside the outer run
\* that ends at 5
C27_Witness ==
    /\ phase = "atomized" /\ cfg = "default" /\ heap = NestedHeap
    /\ Cardinality(Headed) = 2
    /\ UntilOf(0) = 5 /\ UntilOf(1) = 4

\* the values whose builder returns not-cacheable
Uncached(v) == ~BuilderResult(cfg, heap, v)

\* the leaves the default builders never cache
PlainLeaves == {Undef, Null, True, False, NaN}

\* C28: The atomizer honors a not-cacheable hint: once the frame of a value
\* whose builder returned not-cacheable has closed, refs holds no entry for
\* that value (a sentinel or self-reference entry installed during the frame
\* is removed), so void, null, booleans, NaN and any not-cacheable custom
\* value are encoded in full at every occurrence and are never the target of
\* a back-reference emitted after their frame closed.
C28_HintHonored ==
    /\ [](\A k \in DOMAIN trace :
              (Closed(k) /\ Uncached(trace[k][2])) => trace[k][2] \notin DOMAIN refs)
    /\ [][(EmitsBackRef /\ Uncached(Arg)) => OnStack(Arg)]_vars
    /\ []((Encoded /\ cfg = "default") =>
              \A v \in PlainLeaves :
                  BackRefs(v) = {} /\ Cardinality(Opens(v)) = Places(v))

\* y = Map{1: "hi", "hi": 4, ...} with the string encoder that writes a
\* boolean and returns nothing: "hi" is encoded in full at both places and
\* its sentinel has been removed when its frames closed
C28_Witness ==
    /\ phase = "atomized" /\ cfg = "strBool" /\ heap = YHeap
    /\ Cardinality(Opens(StrV(4))) = 2 /\ BackRefs(StrV(4)) = {}
    /\ Cardinality(Opens(True)) = 2
    /\ StrV(4) \notin DOMAIN refs
    /\ Ref(1) \in DOMAIN refs

\* C29: Atom-index counter: atom_index grows by exactly one per child write,
\* whether the child is encoded in full or emitted as a back-reference, and
\* is changed by nothing else: Emit raw, Emit as-is, PushJump, PopJump and
\* AllowSelfReference leave it unchanged (Emit raw also leaves refs, jumps
\* and the active frame unchanged and appends exactly one cell); the root
\* value has atom-index 0.
C29_AtomIndexCounter ==
    /\ [][/\ AtOp("child") => atomIndex' = atomIndex + 1
          /\ ~AtOp("child") => atomIndex' = atomIndex
          /\ AtOp("raw") =>
                /\ output' = Append(output, Arg)
                /\ UNCHANGED <<refs, jumps, activeVal, activeIndex>>
                /\ Len(stack') = Len(stack)]_vars
    /\ []((trace # <<>> /\ Dictionary(cfg) = <<>>) =>
              trace[1][2] = root /\ trace[1][3] = 0)

\* [o, o, 128, 128] with o = { a: "a" }: seven values written, three of them
\* as back-references, and atom_index has reached 6
C29_Witness ==
    /\ phase = "atomized" /\ cfg = "default" /\ heap = SharedHeap
    /\ Len(trace) = 7 /\ atomIndex = 6
    /\ Cardinality({k \in DOMAIN trace : trace[k][1] = "ref"}) = 3
    /\ Len(output) > 7

\* the entries of everything written while the frame of entry k was open
WithinOf(k) ==
    {j \in DOMAIN trace : j > k /\ \A i \in (k + 1)..j : trace[i][5] > trace[k][5]}

\* the header at position p is one of an Array, a Set or a custom-encoded
\* value
RunOnly(p) ==
    /\ p < Len(output) /\ IsInt(output[p + 1])
    /\ And32(output[p + 1][2], ATOM_BITS_MASK) \in {AtomArray, AtomSet, AtomCustom}

\* C30: For Array, Set and custom-encoded values every cell emitted for
\* their children lies between the value's header and its until-index
\* (p < cell position < u), and nothing belonging to that value is emitted at
\* or after u: its frame returns with the output ending at u.
C30_ChildrenInsideRun ==
    /\ Encoded =>
          \A k \in Headed :
              RunOnly(trace[k][4]) =>
                  \A j \in WithinOf(k) :
                      /\ trace[k][4] < trace[j][4]
                      /\ trace[j][4] < UntilOf(trace[k][4])
    /\ (/\ Running /\ Top.pc > Len(TopOps)
        /\ \E i \in DOMAIN TopOps : TopOps[i][1] = "push"
        /\ RunOnly(Top.prevLength))
          => UntilOf(Top.prevLength) = Len(output)

\* y = Map{..., x: Set{y, "boom"}} with x = [1, x]: the set's two members and
\* the array's two elements lie inside their runs
C30_Witness ==
    /\ phase = "atomized" /\ cfg = "default" /\ heap = YHeap
    /\ \E k \in Headed :
          /\ And32(output[trace[k][4] + 1][2], ATOM_BITS_MASK) = AtomSet
          /\ Cardinality(WithinOf(k)) = 2
    /\ \E k \in Headed :
          /\ And32(output[trace[k][4] + 1][2], ATOM_BITS_MASK) = AtomArray
          /\ Cardinality(WithinOf(k)) = 2

\* the call has returned its output or thrown
Ended == phase \notin {"start", "atomizing"}

\* the composites of the graph
Composites == {Ref(i) : i \in DOMAIN heap}

\* C31: Termination of encode: atomize terminates on every finite value
\* graph, cyclic or not, the builders performing finitely many writes; with
\* the default builders each distinct composite opens at most one frame
\* (every later encounter, from inside its own subtree included, is a
\* back-reference), and no 'infinite loop' error is raised for any graph.
C31_EncodeTerminates ==
    /\ <>Ended
    /\ [](cfg = "default" =>
              /\ \A v \in Composites : Cardinality(Opens(v)) <= 1
              /\ err # "infinite loop when encoding")
    /\ []((cfg = "default" /\ Encoded) =>
              \A v \in Composites :
                  Cardinality(Opens(v)) + Cardinality(BackRefs(v)) = Places(v))

\* [[a]] with a the outer array: the call has returned, each array was opened
\* once and the inner one holds a back-reference to the outer
C31_Witness ==
    /\ phase = "atomized" /\ cfg = "default" /\ heap = LoopHeap
    /\ Cardinality(Opens(Ref(1))) = 1 /\ Cardinality(Opens(Ref(2))) = 1
    /\ Cardinality(BackRefs(Ref(1))) = 1

\* C32: AllowSelfReference is idempotent per frame: a second
\* AllowSelfReference in the same frame, issued before or after child writes
\* of that frame, changes nothing: refs, active_index, output, jumps and
\* atom_index are exactly as they were.
C32_AllowSelfReferenceIdempotent ==
    [][(AtOp("asr") /\ Top.allowed) =>
           UNCHANGED <<refs, activeIndex, output, jumps, atomIndex>>]_vars

\* x = [1, x] with the array encoder that allows self-reference again after
\* every element: the fourth call has been made, after the back-reference to
\* x, and x is still known under ~(its atom-index)
C32_Witness ==
    /\ cfg = "arrSelf" /\ heap = <<XArray>> /\ Running
    /\ Len(stack) = 1 /\ Top.allowed
    /\ Top.pc = 8
    /\ TopOps[7] = Op("asr", RAW) /\ TopOps[6] = Op("child", Ref(1))
    /\ BackRefs(Ref(1)) # {}
    /\ refs[Ref(1)] = Not32(0) /\ activeIndex = Not32(0)

====
